---- MODULE Spec2Model ----
(***************************************************************************)
(* A model of ccgains/bags.py: the FIFO lot-accounting engine BagFIFO,     *)
(* its lots (Bag), the transfer primitive _move_bags, the operations       *)
(* buy_with_base_currency, withdraw, deposit, pay and process_trade, the   *)
(* snapshot written by _abort, and the holding-period rule is_short_term.  *)
(***************************************************************************)
EXTENDS Integers, Sequences, FiniteSets, TLC

(***************************************************************************)
(* decimal.Decimal.  A Decimal is carried as an integer count of           *)
(* 10^-DecPlaces; every arithmetic result is rounded half-even to DecPrec  *)
(* significant digits, as the decimal context does.  A result that would   *)
(* need a digit below 10^-DecPlaces cannot be carried: ToGrid then has no  *)
(* value and evaluation fails, so within the bounds every result is the    *)
(* correctly rounded one.                                                  *)
(***************************************************************************)
DecPrec == 4

DecPlaces == 4

Pow10(n) ==
    <<1, 10, 100, 1000, 10000, 100000, 1000000, 10000000, 100000000,
      1000000000>>[n + 1]

One == Pow10(DecPlaces)

Abs(x) == IF x < 0 THEN -x ELSE x

Sign(x) == IF x < 0 THEN -1 ELSE 1

\* the number of decimal digits of x >= 0
NumDigits(x) == 1 + Cardinality({k \in 1..9 : x >= Pow10(k)})

\* exponent and coefficient of a carried value: x = Coef(x) * 10^Expo(x)
Expo(x) ==
    IF x = 0 THEN 0 ELSE Cardinality({k \in 1..9 : Abs(x) % Pow10(k) = 0})

Coef(x) == Abs(x) \div Pow10(Expo(x))

\* c * 10^e counted in 10^-DecPlaces (e is relative to the grid);
\* it has no value when it needs a digit below the grid
ToGrid(c, e) ==
    IF c = 0 THEN 0
    ELSE IF e >= 0 THEN c * Pow10(e)
    ELSE CASE c % Pow10(-e) = 0 -> c \div Pow10(-e)

\* c >= 0 with its last k digits rounded away half-even; `sticky` tells that
\* a non-zero tail follows c
RoundAt(c, sticky, k) ==
    IF k <= 0 THEN c
    ELSE IF \/ c % Pow10(k) > 5 * Pow10(k - 1)
            \/ /\ c % Pow10(k) = 5 * Pow10(k - 1)
               /\ (sticky \/ (c \div Pow10(k)) % 2 = 1)
         THEN ((c \div Pow10(k)) + 1) * Pow10(k)
         ELSE (c \div Pow10(k)) * Pow10(k)

\* c >= 0 rounded to DecPrec significant digits
RoundCoef(c, sticky) == RoundAt(c, sticky, NumDigits(c) - DecPrec)

DRound(x) == Sign(x) * RoundCoef(Abs(x), FALSE)

DAdd(a, b) == DRound(a + b)

DSub(a, b) == DRound(a - b)

DMul(a, b) ==
    Sign(a) * Sign(b)
      * ToGrid(RoundCoef(Coef(a) * Coef(b), FALSE),
               Expo(a) + Expo(b) - DecPlaces)

\* the quotient ca / cb carried to j more digits, rounded, times 10^e
DivAt(ca, cb, j, e) ==
    ToGrid(RoundCoef((ca * Pow10(j)) \div cb, (ca * Pow10(j)) % cb # 0),
           e - j)

\* a / b: the quotient of the coefficients is taken to DecPrec + 1 digits
\* at least before it is rounded
DDiv(a, b) ==
    Sign(a) * Sign(b)
      * DivAt(Coef(a), Coef(b),
              DecPrec + 1 + NumDigits(Coef(b)) - NumDigits(Coef(a)),
              Expo(a) - Expo(b) + DecPlaces)

(***************************************************************************)
(* Timestamps.  A timezone-aware timestamp is the integer yyyymmdd of its  *)
(* civil date (all aware timestamps are taken in one timezone); a          *)
(* timezone-naive timestamp is carried as the negative of that integer.    *)
(***************************************************************************)
Epoch == 19700101

HasTz(dtime) == dtime > 0

YearOf(d) == d \div 10000

MonthOf(d) == (d \div 100) % 100

DayOf(d) == d % 100

MkDate(y, m, d) == y * 10000 + m * 100 + d

IsLeap(y) == (y % 4 = 0 /\ y % 100 # 0) \/ y % 400 = 0

DaysInMonth(y, m) ==
    IF m = 2 THEN (IF IsLeap(y) THEN 29 ELSE 28)
    ELSE IF m \in {4, 6, 9, 11} THEN 30 ELSE 31

\* dateutil: date + relativedelta(months=n); the day is clipped to the
\* length of the target month
AddMonths(d, n) ==
    LET tot == YearOf(d) * 12 + (MonthOf(d) - 1) + n
        y   == tot \div 12
        m   == (tot % 12) + 1
        dim == DaysInMonth(y, m)
    IN  MkDate(y, m, IF DayOf(d) > dim THEN dim ELSE DayOf(d))

\* dateutil: the month count of relativedelta(dt1, dt2), corrected until
\* dt2 + months does not overshoot dt1
RECURSIVE AdjustMonths(_, _, _)
AdjustMonths(dt1, dt2, months) ==
    LET dtm == AddMonths(dt2, months)
    IN  IF dt1 < dt2
        THEN (IF dt1 > dtm THEN AdjustMonths(dt1, dt2, months + 1) ELSE months)
        ELSE (IF dt1 < dtm THEN AdjustMonths(dt1, dt2, months - 1) ELSE months)

\* relativedelta(dt1, dt2).years: the whole years, truncated towards zero
RelativeYears(dt1, dt2) ==
    LET m0 == (YearOf(dt1) - YearOf(dt2)) * 12 + (MonthOf(dt1) - MonthOf(dt2))
        m  == AdjustMonths(dt1, dt2, m0)
    IN  Sign(m) * (Abs(m) \div 12)

\* a cutoff that counts the first year reached as short term
is_short_term_lax(adate, tdate) == Abs(RelativeYears(tdate, adate)) <= 1

\* is_short_term; both timestamps are in the timezone of adate
is_short_term(adate, tdate) == Abs(RelativeYears(tdate, adate)) < 1

(***************************************************************************)
(* Bag: one lot.                                                           *)
(***************************************************************************)
Bag(id, dtime, currency, amount, cost_currency, cost) ==
    [id |-> id, dtime |-> dtime, currency |-> currency, amount |-> amount,
     cost_currency |-> cost_currency, cost |-> cost,
     price |-> DDiv(cost, amount)]

\* a spend that takes the amount out but leaves the cost of a partly spent
\* lot as it was
spend_keeping_cost(bag, amount) ==
    IF amount >= bag.amount
    THEN [bag |-> [bag EXCEPT !.amount = 0, !.cost = 0],
          spent |-> bag.amount, bvalue |-> bag.cost,
          remainder |-> DSub(amount, bag.amount)]
    ELSE [bag |-> [bag EXCEPT !.amount = DSub(bag.amount, amount)],
          spent |-> amount, bvalue |-> DMul(amount, bag.price),
          remainder |-> 0]

\* Bag.spend: the bag afterwards and the tuple (spent, bvalue, remainder)
spend(bag, amount) ==
    IF amount >= bag.amount
    THEN [bag |-> [bag EXCEPT !.amount = 0, !.cost = 0],
          spent |-> bag.amount, bvalue |-> bag.cost,
          remainder |-> DSub(amount, bag.amount)]
    ELSE LET value == DMul(amount, bag.price)
         IN  [bag |-> [bag EXCEPT !.amount = DSub(bag.amount, amount),
                                  !.cost = DSub(bag.cost, value)],
              spent |-> amount, bvalue |-> value, remainder |-> 0]

is_empty(bag) == bag.amount = 0

(***************************************************************************)
(* Dictionaries: functions whose domain is the set of keys present.        *)
(***************************************************************************)
EmptyDict == <<>>

Has(d, k) == k \in DOMAIN d

Put(d, k, v) == [x \in (DOMAIN d) \cup {k} |-> IF x = k THEN v ELSE d[x]]

Del(d, k) == [x \in (DOMAIN d) \ {k} |-> d[x]]

Get(d, k, default) == IF Has(d, k) THEN d[k] ELSE default

IsEmptyDict(d) == DOMAIN d = {}

RemoveAt(seq, i) ==
    [j \in 1..(Len(seq) - 1) |-> IF j < i THEN seq[j] ELSE seq[j + 1]]

\* list.sort(key=attrgetter('dtime')): the sort is stable, so the place
\* of seq[j] is 1 + the number of bags that are older, or as old and before it
SortRank(seq, j) ==
    1 + Cardinality({k \in 1..Len(seq) :
                       \/ seq[k].dtime < seq[j].dtime
                       \/ seq[k].dtime = seq[j].dtime /\ k < j})

SortByDtime(seq) ==
    [p \in 1..Len(seq) |->
        seq[CHOOSE j \in 1..Len(seq) : SortRank(seq, j) = p]]

(***************************************************************************)
(* BagFIFO.  The methods are operators on the record `s` of the object's   *)
(* fields; s.exc is the exception the call has raised ("none" while it     *)
(* runs normally) and s.ret the value it returns.  A raise leaves the      *)
(* fields as the statements before it have set them.  A method is a chain  *)
(* of operators, one for each stretch of its body: each hands the object   *)
(* as it has left it to the next.                                          *)
(***************************************************************************)
BaseCurrency == "EUR"

InTransit == "in_transit"

NoDump == [written |-> FALSE]

\* json_dump: the constructor's default, and no file
DefaultDump == "./precrash.json"

None == "None"

NoRet == [st_cost |-> 0, st_rev |-> 0, cost |-> 0, rev |-> 0]

\* BagFIFO.__init__; dump is what the file at dump_file holds
BagFIFO(json_dump) ==
    [profit |-> 0, bags |-> EmptyDict, totals |-> EmptyDict,
     in_transit |-> EmptyDict, last_date |-> Epoch, num_created_bags |-> 0,
     dump_file |-> json_dump, dump |-> NoDump, exc |-> "none", ret |-> NoRet]

NewBagFIFO == BagFIFO(DefaultDump)

\* str(exchange).capitalize()
Capitalize(exchange) ==
    CASE exchange = "a" -> "A"
      [] exchange = "b" -> "B"
      [] OTHER -> exchange

\* BagFIFO.save: the document written, every field but the rate provider
save(s) ==
    [written |-> TRUE, currency |-> BaseCurrency, profit |-> s.profit,
     bags |-> s.bags, totals |-> s.totals, in_transit |-> s.in_transit,
     last_date |-> s.last_date, num_created_bags |-> s.num_created_bags,
     dump_file |-> s.dump_file]

Raise(s, exception) == [s EXCEPT !.exc = exception]

SetRet(s, ret) == [s EXCEPT !.ret = ret]

\* BagFIFO._abort: save, then raise ValueError; without a file to save to,
\* save's open(None, 'w') raises TypeError and nothing is written
AbortState(s) ==
    IF s.dump_file = None THEN Raise(s, "TypeError")
    ELSE Raise([s EXCEPT !.dump = save(s)], "ValueError")

\* a check of the order that leaves the last date as it is
CheckOrderKeepingDate(s, dtime) ==
    IF ~HasTz(dtime) THEN AbortState(s)
    ELSE IF dtime < s.last_date THEN AbortState(s)
    ELSE s

CheckOrderLax(s, dtime) ==
    IF ~HasTz(dtime) THEN AbortState(s) ELSE [s EXCEPT !.last_date = dtime]

\* BagFIFO._check_order
CheckOrder(s, dtime) ==
    IF ~HasTz(dtime) THEN AbortState(s)
    ELSE IF dtime < s.last_date THEN AbortState(s)
    ELSE [s EXCEPT !.last_date = dtime]

\* a balance read that gives twice the balance
TotalDoubled(s, exchange, currency) ==
    IF ~Has(s.totals, exchange) THEN 0
    ELSE 2 * Get(s.totals[exchange], currency, 0)

\* total = self.totals[exchange].get(currency, 0), or 0 without the exchange
Total(s, exchange, currency) ==
    IF ~Has(s.totals, exchange) THEN 0
    ELSE Get(s.totals[exchange], currency, 0)

\* the inner scan `while src[i].currency != currency`: the index of the
\* next bag of the currency from i on, "exhausted" when the scan runs off
\* the end, "IndexError" when src[i] does not exist as the scan starts
RECURSIVE FindBag(_, _, _)
FindBag(src, i, currency) ==
    IF i > Len(src) THEN [kind |-> "IndexError", i |-> i]
    ELSE IF src[i].currency = currency THEN [kind |-> "found", i |-> i]
    ELSE IF i = Len(src) THEN [kind |-> "exhausted", i |-> i + 1]
    ELSE FindBag(src, i + 1, currency)

MoveResult(src, dest, num, to_move, exception) ==
    [src |-> src, dest |-> dest, num |-> num, ret |-> to_move,
     exc |-> exception]

RECURSIVE MoveLoop(_, _, _, _, _, _)

\* a split that gives the new bag the id of the bag it is taken from
MoveSplitSameId(src, dest, to_move, currency, num, i, sp) ==
    MoveLoop([src EXCEPT ![i] = sp.bag],
             Append(dest, Bag(src[i].id, src[i].dtime, src[i].currency,
                              sp.spent, src[i].cost_currency, sp.bvalue)),
             DSub(to_move, sp.spent), currency, num, i)

\* `We need to split the bag`: sp is the outcome of bag.spend(to_move)
MoveSplit(src, dest, to_move, currency, num, i, sp) ==
    MoveLoop([src EXCEPT ![i] = sp.bag],
             Append(dest, Bag(num + 1, src[i].dtime, src[i].currency, sp.spent,
                              src[i].cost_currency, sp.bvalue)),
             DSub(to_move, sp.spent), currency, num + 1, i)

\* the body of the loop for the bag found at f
MoveFound(src, dest, to_move, currency, num, f) ==
    IF f.kind = "IndexError"
    THEN MoveResult(src, dest, num, to_move, "IndexError")
    ELSE IF f.kind = "exhausted"
    THEN MoveResult(src, dest, num, to_move, "none")
    ELSE IF src[f.i].amount <= to_move
    THEN MoveLoop(RemoveAt(src, f.i), Append(dest, src[f.i]),
                  DSub(to_move, src[f.i].amount), currency, num, f.i)
    ELSE MoveSplit(src, dest, to_move, currency, num, f.i,
                   spend(src[f.i], to_move))

\* BagFIFO._move_bags, the loop from index i with to_move still to move;
\* num is self.num_created_bags
MoveLoop(src, dest, to_move, currency, num, i) ==
    IF ~(to_move > 0) THEN MoveResult(src, dest, num, to_move, "none")
    ELSE MoveFound(src, dest, to_move, currency, num,
                   FindBag(src, i, currency))

move_bags_from_second(src, dest, amount, currency, num) ==
    MoveLoop(src, dest, amount, currency, num, 2)

\* BagFIFO._move_bags
move_bags(src, dest, amount, currency, num) ==
    MoveLoop(src, dest, amount, currency, num, 1)

CreditNothing(totals, exchange, currency, amount) == totals

\* tot = self.totals[exchange].get(currency, Decimal());
\* self.totals[exchange][currency] = tot + amount
Credit(totals, exchange, currency, amount) ==
    Put(totals, exchange,
        Put(Get(totals, exchange, EmptyDict), currency,
            DAdd(Get(Get(totals, exchange, EmptyDict), currency, 0), amount)))

\* buy_with_base_currency once the timestamp is checked
buy_checked(s1, dtime, amount, currency, cost, exchange) ==
    IF s1.exc # "none" THEN s1
    ELSE IF amount <= 0 THEN s1
    ELSE IF currency = BaseCurrency THEN AbortState(s1)
    ELSE [s1 EXCEPT
            !.bags = Put(s1.bags, exchange,
                         Append(Get(s1.bags, exchange, <<>>),
                                Bag(s1.num_created_bags + 1, dtime, currency,
                                    amount, BaseCurrency, cost))),
            !.num_created_bags = s1.num_created_bags + 1,
            !.totals = Credit(s1.totals, exchange, currency, amount)]

\* BagFIFO.buy_with_base_currency
buy_with_base_currency(s0, dtime, amount, currency, cost, exch) ==
    buy_checked(CheckOrder(s0, dtime), dtime, amount, currency, cost,
                Capitalize(exch))

PayResult(blist, acc, exception) ==
    [bags |-> blist, acc |-> acc, exc |-> exception]

\* an accounting that takes every lot for a short-term lot
AccountAllShortTerm(acc, bvalue, thisrev, short_term) ==
    [cost    |-> DAdd(acc.cost, bvalue),
     rev     |-> DAdd(acc.rev, thisrev),
     st_cost |-> DAdd(acc.st_cost, bvalue),
     st_rev  |-> DAdd(acc.st_rev, thisrev)]

\* rev += thisrev; cost += bvalue; and the short-term sums if short_term
Account(acc, bvalue, thisrev, short_term) ==
    [cost    |-> DAdd(acc.cost, bvalue),
     rev     |-> DAdd(acc.rev, thisrev),
     st_cost |-> IF short_term THEN DAdd(acc.st_cost, bvalue) ELSE acc.st_cost,
     st_rev  |-> IF short_term THEN DAdd(acc.st_rev, thisrev) ELSE acc.st_rev]

RECURSIVE PayLoop(_, _, _, _, _, _, _)

\* an end of the loop's body that passes over the bag, empty or not
PayNextKeeping(blist, currency, dtime, rate, i, sp, acc) ==
    PayLoop([blist EXCEPT ![i] = sp.bag], sp.remainder, currency, dtime,
            rate, i + 1, acc)

\* the end of the loop's body: to_pay = remainder, and the bag is deleted
\* if it is empty, else passed over
PayNext(blist, currency, dtime, rate, i, sp, acc) ==
    IF is_empty(sp.bag)
    THEN PayLoop(RemoveAt(blist, i), sp.remainder, currency, dtime, rate, i,
                 acc)
    ELSE PayLoop([blist EXCEPT ![i] = sp.bag], sp.remainder, currency, dtime,
                 rate, i + 1, acc)

\* sp is the outcome of bag.spend(to_pay) for the bag at i
PaySpent(blist, currency, dtime, rate, i, sp, acc) ==
    PayNext(blist, currency, dtime, rate, i, sp,
            Account(acc, sp.bvalue, DMul(sp.spent, rate),
                    is_short_term(blist[i].dtime, dtime)))

\* the body of the loop for the bag found at f
PayFound(blist, to_pay, currency, dtime, rate, f, acc) ==
    IF f.kind = "IndexError" THEN PayResult(blist, acc, "IndexError")
    ELSE IF f.kind = "exhausted" THEN PayResult(blist, acc, "Exception")
    ELSE PaySpent(blist, currency, dtime, rate, f.i,
                  spend(blist[f.i], to_pay), acc)

\* BagFIFO.pay, the loop over self.bags[exchange] from index i with to_pay
\* still due; acc holds (st_cost, st_rev, cost, rev)
PayLoop(blist, to_pay, currency, dtime, rate, i, acc) ==
    IF ~(to_pay > 0) THEN PayResult(blist, acc, "none")
    ELSE PayFound(blist, to_pay, currency, dtime, rate,
                  FindBag(blist, i, currency), acc)

\* del self.totals[exchange][currency], and the exchange's entry with it
\* if that was its last currency
DropTotal(totals, exchange, currency) ==
    IF IsEmptyDict(Del(totals[exchange], currency)) THEN Del(totals, exchange)
    ELSE Put(totals, exchange, Del(totals[exchange], currency))

\* `update and clean up totals` after `amount` of the currency has left the
\* exchange; `total` is the balance read earlier
LeaveTotals(s, exchange, currency, total, amount) ==
    IF ~Has(s.totals, exchange) THEN Raise(s, "KeyError")
    ELSE IF DSub(total, amount) # 0
    THEN [s EXCEPT !.totals = Put(s.totals, exchange,
                                  Put(s.totals[exchange], currency,
                                      DSub(total, amount)))]
    ELSE IF ~Has(s.totals[exchange], currency) THEN Raise(s, "KeyError")
    ELSE IF ~Has(s.bags, exchange)
    THEN Raise([s EXCEPT !.totals = DropTotal(s.totals, exchange, currency)],
               "KeyError")
    ELSE [s EXCEPT
            !.totals = DropTotal(s.totals, exchange, currency),
            !.bags = IF Len(s.bags[exchange]) = 0 THEN Del(s.bags, exchange)
                     ELSE s.bags]

\* pay after its loop, which has ended as lp
pay_paid(s1, currency, amount, exchange, total, lp) ==
    IF lp.exc # "none"
    THEN Raise([s1 EXCEPT !.bags = Put(s1.bags, exchange, lp.bags)], lp.exc)
    ELSE SetRet(LeaveTotals([s1 EXCEPT !.bags = Put(s1.bags, exchange, lp.bags)],
                            exchange, currency, total, amount),
                lp.acc)

\* pay from the balance check on; relation[currency] is the rate the rate
\* provider gives at dtime, the currency is absent where get_rate raises
\* KeyError
pay_total(s1, dtime, currency, amount, exchange, relation, total) ==
    IF amount > total THEN AbortState(s1)
    ELSE IF ~Has(relation, currency) THEN AbortState(s1)
    ELSE pay_paid(s1, currency, amount, exchange, total,
                  PayLoop(s1.bags[exchange], amount, currency, dtime,
                          relation[currency], 1, NoRet))

\* pay once the timestamp is checked
pay_checked(s1, dtime, currency, amount, exchange, relation) ==
    IF s1.exc # "none" THEN s1
    ELSE IF amount <= 0 THEN s1
    ELSE IF currency = BaseCurrency THEN AbortState(s1)
    ELSE IF ~Has(s1.bags, exchange) THEN AbortState(s1)
    ELSE IF Len(s1.bags[exchange]) = 0 THEN AbortState(s1)
    ELSE pay_total(s1, dtime, currency, amount, exchange, relation,
                   Total(s1, exchange, currency))

\* BagFIFO.pay
pay(s0, dtime, currency, amount, exch, relation) ==
    pay_checked(CheckOrder(s0, dtime), dtime, currency, amount,
                Capitalize(exch), relation)

FeeIgnored(paid) == paid

\* cost, _, _, _ = self.pay(...); self.profit -= cost
FeeLoss(paid) ==
    IF paid.exc # "none" THEN paid
    ELSE [paid EXCEPT !.profit = DSub(paid.profit, paid.ret.st_cost)]

\* the end of withdraw: the in_transit total
withdraw_transit(s5, currency, amount, fee) ==
    IF s5.exc # "none" THEN s5
    ELSE [s5 EXCEPT
            !.totals = Put(s5.totals, InTransit,
                           Put(Get(s5.totals, InTransit, EmptyDict), currency,
                               DSub(DAdd(Get(Get(s5.totals, InTransit,
                                                 EmptyDict), currency, 0),
                                         amount),
                                    fee)))]

\* withdraw after _move_bags, which has ended with exception exc and
\* returned remainder; s4 holds the lists as it has left them
withdraw_moved(s4, currency, amount, fee, exchange, total, exc, remainder) ==
    IF exc # "none" THEN Raise(s4, exc)
    ELSE IF remainder # 0 THEN Raise(s4, "Exception")
    ELSE withdraw_transit(LeaveTotals(s4, exchange, currency, total, amount),
                          currency, amount, fee)

\* s3 with the two lists and the bag counter as _move_bags has left them
Moved(s3, exchange, currency, onExchange, inTransit, num) ==
    [s3 EXCEPT !.bags = Put(s3.bags, exchange, onExchange),
               !.in_transit = Put(s3.in_transit, currency, inTransit),
               !.num_created_bags = num]

withdraw_move(s3, currency, amount, fee, exchange, total, mv) ==
    withdraw_moved(Moved(s3, exchange, currency, mv.src, mv.dest, mv.num),
                   currency, amount, fee, exchange, total, mv.exc, mv.ret)

\* if currency not in self.in_transit: self.in_transit[currency] = []
WithTransit(s, currency) ==
    IF Has(s.in_transit, currency) THEN s
    ELSE [s EXCEPT !.in_transit = Put(s.in_transit, currency, <<>>)]

\* `Move bags to self.in_transit`
withdraw_staged(s3, currency, amount, fee, exchange, total) ==
    IF ~Has(s3.bags, exchange) THEN Raise(s3, "KeyError")
    ELSE withdraw_move(s3, currency, amount, fee, exchange, total,
                       move_bags(s3.bags[exchange], s3.in_transit[currency],
                                 DSub(amount, fee), currency,
                                 s3.num_created_bags))

\* withdraw after `any fees?`
withdraw_fee(s2, currency, amount, fee, exchange, total) ==
    IF s2.exc # "none" THEN s2
    ELSE withdraw_staged(WithTransit(s2, currency), currency, amount, fee,
                         exchange, total)

\* withdraw from the balance check on
withdraw_total(s1, dtime, currency, amount, fee, exchange, relation, total) ==
    IF amount > total THEN AbortState(s1)
    ELSE IF fee > 0
    THEN withdraw_fee(FeeLoss(pay(s1, dtime, currency, fee, exchange,
                                  relation)),
                      currency, amount, fee, exchange, total)
    ELSE withdraw_fee(s1, currency, amount, fee, exchange, total)

\* withdraw once the timestamp is checked
withdraw_checked(s1, dtime, currency, amount, fee, exchange, relation) ==
    IF s1.exc # "none" THEN s1
    ELSE IF amount <= 0 THEN s1
    ELSE IF currency = BaseCurrency THEN AbortState(s1)
    ELSE withdraw_total(s1, dtime, currency, amount, fee, exchange, relation,
                        Total(s1, exchange, currency))

\* BagFIFO.withdraw
withdraw(s0, dtime, currency, amount, fee, exch, relation) ==
    withdraw_checked(CheckOrder(s0, dtime), dtime, currency, amount, fee,
                     Capitalize(exch), relation)

\* deposit, `any fees?`
deposit_fee(s6, dtime, currency, fee, exchange, relation) ==
    IF fee > 0
    THEN FeeLoss(pay(s6, dtime, currency, fee, exchange, relation))
    ELSE s6

\* tot = self.totals[exchange].get(currency, Decimal());
\* self.totals[exchange][currency] = tot + amount - remainder
deposit_totals(s5, dtime, currency, amount, fee, exchange, relation, remainder) ==
    IF s5.exc # "none" THEN s5
    ELSE deposit_fee(
           [s5 EXCEPT
              !.totals = Put(s5.totals, exchange,
                             Put(Get(s5.totals, exchange, EmptyDict), currency,
                                 DSub(DAdd(Get(Get(s5.totals, exchange,
                                                   EmptyDict), currency, 0),
                                           amount),
                                      remainder)))],
           dtime, currency, fee, exchange, relation)

\* self.totals['in_transit'] after the deposit, t0 before it
ArriveEntry(t0, currency, amount) ==
    IF ~Has(t0, currency) THEN t0
    ELSE IF DSub(t0[currency], amount) <= 0 THEN Del(t0, currency)
    ELSE Put(t0, currency, DSub(t0[currency], amount))

SetTransitTotals(s, t1) ==
    [s EXCEPT !.totals = IF IsEmptyDict(t1) THEN Del(s.totals, InTransit)
                         ELSE Put(s.totals, InTransit, t1)]

\* a deposit that keeps the emptied list of the currency in self.in_transit
ArriveTransitKept(s, currency) == s

\* if not self.in_transit[currency]: del self.in_transit[currency]
ArriveTransit(s, currency) ==
    IF ~Has(s.in_transit, currency) THEN Raise(s, "KeyError")
    ELSE IF Len(s.in_transit[currency]) = 0
    THEN [s EXCEPT !.in_transit = Del(s.in_transit, currency)]
    ELSE s

\* deposit, `update self.totals and clean up`: the in_transit part
ArriveTotals(s, currency, amount) ==
    IF ~Has(s.totals, InTransit) THEN s
    ELSE ArriveTransit(
           SetTransitTotals(s, ArriveEntry(s.totals[InTransit], currency,
                                           amount)),
           currency)

deposit_arrive(s4, dtime, currency, amount, fee, exchange, relation, remainder) ==
    IF s4.exc # "none" THEN s4
    ELSE deposit_totals(ArriveTotals(s4, currency, amount), dtime, currency,
                        amount, fee, exchange, relation, remainder)

\* deposit, `if remainder:` the excess is bought with 0 base currency
deposit_remainder(s3, dtime, currency, amount, fee, exchange, relation, remainder) ==
    IF remainder # 0
    THEN deposit_arrive(buy_with_base_currency(s3, dtime, remainder, currency,
                                               0, exchange),
                        dtime, currency, amount, fee, exchange, relation,
                        remainder)
    ELSE deposit_arrive(s3, dtime, currency, amount, fee, exchange, relation,
                        remainder)

\* a deposit that leaves the exchange's list as _move_bags has left it
deposit_moved_unsorted(s2, dtime, currency, amount, fee, exchange, relation, mv) ==
    IF mv.exc # "none"
    THEN Raise(Moved(s2, exchange, currency, mv.dest, mv.src, mv.num), mv.exc)
    ELSE deposit_remainder(
           Moved(s2, exchange, currency, mv.dest, mv.src, mv.num),
           dtime, currency, amount, fee, exchange, relation, mv.ret)

\* deposit after _move_bags, which has ended as mv: the exchange's list is
\* sorted by dtime
deposit_moved(s2, dtime, currency, amount, fee, exchange, relation, mv) ==
    IF mv.exc # "none"
    THEN Raise(Moved(s2, exchange, currency, mv.dest, mv.src, mv.num), mv.exc)
    ELSE deposit_remainder(
           Moved(s2, exchange, currency, SortByDtime(mv.dest), mv.src, mv.num),
           dtime, currency, amount, fee, exchange, relation, mv.ret)

\* if exchange not in self.bags: self.bags[exchange] = []
WithLedger(s, exchange) ==
    IF Has(s.bags, exchange) THEN s
    ELSE [s EXCEPT !.bags = Put(s.bags, exchange, <<>>)]

\* deposit, `Move bags to self.bags`
deposit_move(s2, dtime, currency, amount, fee, exchange, relation) ==
    IF Has(s2.in_transit, currency)
    THEN deposit_moved(s2, dtime, currency, amount, fee, exchange, relation,
                       move_bags(s2.in_transit[currency], s2.bags[exchange],
                                 amount, currency, s2.num_created_bags))
    ELSE deposit_remainder(s2, dtime, currency, amount, fee, exchange,
                           relation, amount)

\* deposit once the timestamp is checked
deposit_checked(s1, dtime, currency, amount, fee, exchange, relation) ==
    IF s1.exc # "none" THEN s1
    ELSE IF amount <= 0 THEN s1
    ELSE IF currency = BaseCurrency THEN AbortState(s1)
    ELSE deposit_move(WithLedger(s1, exchange), dtime, currency, amount, fee,
                      exchange, relation)

\* BagFIFO.deposit
deposit(s0, dtime, currency, amount, fee, exch, relation) ==
    deposit_checked(CheckOrder(s0, dtime), dtime, currency, amount, fee,
                    Capitalize(exch), relation)

\* Trade: the fields of a trade record that process_trade reads
Trade(dtime, buycur, buyval, sellcur, sellval, feecur, feeval, exch) ==
    [dtime |-> dtime, buycur |-> buycur, buyval |-> buyval,
     sellcur |-> sellcur, sellval |-> sellval, feecur |-> feecur,
     feeval |-> feeval, exchange |-> exch]

\* `Get the fee's proportion of traded amount`
FeeProportion(trade) ==
    IF trade.feeval > 0
    THEN (IF trade.feecur = trade.sellcur
          THEN DDiv(trade.feeval, trade.sellval)
          ELSE DDiv(trade.feeval, DAdd(trade.buyval, trade.feeval)))
    ELSE 0

\* `Did we trade for another foreign/cryptocurrency?`
trade_bought(s2, trade, fee_p, tot_proceeds) ==
    IF trade.buycur # BaseCurrency
    THEN buy_with_base_currency(s2, trade.dtime, trade.buyval, trade.buycur,
                                DMul(tot_proceeds, DSub(One, fee_p)),
                                trade.exchange)
    ELSE s2

\* a sale whose reacquisition is costed at the short-term proceeds
trade_paid_short_term(paid, trade, fee_p) ==
    IF paid.exc # "none" THEN paid
    ELSE trade_bought(
           [paid EXCEPT
              !.profit = DAdd(paid.profit,
                              DSub(DMul(DSub(One, fee_p), paid.ret.st_rev),
                                   paid.ret.st_cost))],
           trade, fee_p, paid.ret.st_rev)

\* self.profit += (1 - fee_p) * st_proceeds - st_cost
trade_paid(paid, trade, fee_p) ==
    IF paid.exc # "none" THEN paid
    ELSE trade_bought(
           [paid EXCEPT
              !.profit = DAdd(paid.profit,
                              DSub(DMul(DSub(One, fee_p), paid.ret.st_rev),
                                   paid.ret.st_cost))],
           trade, fee_p, paid.ret.rev)

\* the branch of a trade that sells one held currency for another currency
trade_sold(s1, trade, relation) ==
    IF trade.feeval > 0 /\ trade.feecur # trade.sellcur
         /\ trade.feecur # trade.buycur
    THEN AbortState(s1)
    ELSE trade_paid(pay(s1, trade.dtime, trade.sellcur, trade.sellval,
                        trade.exchange, relation),
                    trade, FeeProportion(trade))

\* a dispatch that tests for a withdrawal before it tests for an
\* acquisition
trade_checked_withdrawal_first(s1, trade, relation) ==
    IF s1.exc # "none" THEN s1
    ELSE IF trade.buyval < 0 \/ trade.sellval < 0 \/ trade.feeval < 0
    THEN AbortState(s1)
    ELSE IF (trade.buycur = "" \/ trade.buyval = 0)
              /\ ~(trade.sellcur = "" \/ trade.sellval = 0)
    THEN (IF trade.feeval > 0 /\ trade.sellcur # trade.feecur
          THEN AbortState(s1)
          ELSE withdraw(s1, trade.dtime, trade.sellcur, trade.sellval,
                        trade.feeval, trade.exchange, relation))
    ELSE IF trade.sellcur = BaseCurrency /\ trade.sellval # 0
    THEN buy_with_base_currency(s1, trade.dtime, trade.buyval, trade.buycur,
                                trade.sellval, trade.exchange)
    ELSE IF trade.sellcur = "" \/ trade.sellval = 0
    THEN (IF trade.feeval > 0 /\ trade.buycur # trade.feecur
          THEN AbortState(s1)
          ELSE deposit(s1, trade.dtime, trade.buycur, trade.buyval,
                       trade.feeval, trade.exchange, relation))
    ELSE trade_sold(s1, trade, relation)

\* process_trade once the timestamp is checked
trade_checked(s1, trade, relation) ==
    IF s1.exc # "none" THEN s1
    ELSE IF trade.buyval < 0 \/ trade.sellval < 0 \/ trade.feeval < 0
    THEN AbortState(s1)
    ELSE IF trade.sellcur = BaseCurrency /\ trade.sellval # 0
    THEN buy_with_base_currency(s1, trade.dtime, trade.buyval, trade.buycur,
                                trade.sellval, trade.exchange)
    ELSE IF trade.sellcur = "" \/ trade.sellval = 0
    THEN (IF trade.feeval > 0 /\ trade.buycur # trade.feecur
          THEN AbortState(s1)
          ELSE deposit(s1, trade.dtime, trade.buycur, trade.buyval,
                       trade.feeval, trade.exchange, relation))
    ELSE IF trade.buycur = "" \/ trade.buyval = 0
    THEN (IF trade.feeval > 0 /\ trade.sellcur # trade.feecur
          THEN AbortState(s1)
          ELSE withdraw(s1, trade.dtime, trade.sellcur, trade.sellval,
                        trade.feeval, trade.exchange, relation))
    ELSE trade_sold(s1, trade, relation)

\* BagFIFO.process_trade
process_trade(s0, trade, relation) ==
    trade_checked(CheckOrder(s0, trade.dtime), trade, relation)

(***************************************************************************)
(* The snapshot codec.  json.dump writes a Decimal as its string, carried  *)
(* here as sign, digits and exponent, a timestamp as its string, carried   *)
(* as year, month, day and the presence of an offset, and a Bag as its     *)
(* __dict__.  json.load rebuilds the values; a Bag is rebuilt by Bag with  *)
(* the entries of the dict as keywords, the price among them, so that its  *)
(* cost is computed anew.                                                  *)
(***************************************************************************)
\* _json_encode_default: {'type(Decimal)': str(obj)}
EncodeDecimal(x) ==
    [type |-> "Decimal", negative |-> x < 0, digits |-> Coef(x),
     exponent |-> Expo(x) - DecPlaces]

\* _json_decode_hook: Decimal(obj['type(Decimal)'])
DecodeDecimal(o) ==
    (IF o.negative THEN -1 ELSE 1) * ToGrid(o.digits, o.exponent + DecPlaces)

\* _json_encode_default: {'type(datetime)': str(obj)}
EncodeTime(t) ==
    [type |-> "datetime", year |-> YearOf(Abs(t)), month |-> MonthOf(Abs(t)),
     day |-> DayOf(Abs(t)), offset |-> HasTz(t)]

\* _json_decode_hook: pd.Timestamp(obj['type(datetime)'])
DecodeTime(o) ==
    (IF o.offset THEN 1 ELSE -1) * MkDate(o.year, o.month, o.day)

\* _json_encode_default: {'type(Bag)': obj.__dict__}
EncodeBag(b) ==
    [type |-> "Bag", id |-> b.id, amount |-> EncodeDecimal(b.amount),
     currency |-> b.currency, dtime |-> EncodeTime(b.dtime),
     cost_currency |-> b.cost_currency, cost |-> EncodeDecimal(b.cost),
     price |-> EncodeDecimal(b.price)]

\* Bag.__init__ with a price: the cost given is ignored
BagWithPrice(id, dtime, currency, amount, cost_currency, cost, price) ==
    [id |-> id, dtime |-> dtime, currency |-> currency, amount |-> amount,
     cost_currency |-> cost_currency, cost |-> DMul(amount, price),
     price |-> price]

\* _json_decode_hook: Bag with the entries of obj['type(Bag)'] as keywords
DecodeBag(o) ==
    BagWithPrice(o.id, DecodeTime(o.dtime), o.currency,
                 DecodeDecimal(o.amount), o.cost_currency,
                 DecodeDecimal(o.cost), DecodeDecimal(o.price))

EncodeBags(d) ==
    [k \in DOMAIN d |-> [i \in DOMAIN d[k] |-> EncodeBag(d[k][i])]]

DecodeBags(d) ==
    [k \in DOMAIN d |-> [i \in DOMAIN d[k] |-> DecodeBag(d[k][i])]]

EncodeTotals(d) ==
    [k \in DOMAIN d |-> [c \in DOMAIN d[k] |-> EncodeDecimal(d[k][c])]]

DecodeTotals(d) ==
    [k \in DOMAIN d |-> [c \in DOMAIN d[k] |-> DecodeDecimal(d[k][c])]]

\* json.dump(document, default=_json_encode_default): the text written for
\* the document of save
JsonDump(doc) ==
    [currency |-> doc.currency, profit |-> EncodeDecimal(doc.profit),
     bags |-> EncodeBags(doc.bags), totals |-> EncodeTotals(doc.totals),
     in_transit |-> EncodeBags(doc.in_transit),
     last_date |-> EncodeTime(doc.last_date),
     num_created_bags |-> doc.num_created_bags, dump_file |-> doc.dump_file]

\* json.load(fp, object_hook=_json_decode_hook)
JsonLoad(text) ==
    [currency |-> text.currency, profit |-> DecodeDecimal(text.profit),
     bags |-> DecodeBags(text.bags), totals |-> DecodeTotals(text.totals),
     in_transit |-> DecodeBags(text.in_transit),
     last_date |-> DecodeTime(text.last_date),
     num_created_bags |-> text.num_created_bags, dump_file |-> text.dump_file]

\* load, `remove zero totals`: the entries of one key without the zeros
NonZero(t) == [c \in {x \in DOMAIN t : t[x] # 0} |-> t[c]]

\* a key is left without entries: it is deleted from the dictionary the
\* loop runs over, and the loop's next step raises RuntimeError
EmptiedKeys(totals) == {k \in DOMAIN totals : IsEmptyDict(NonZero(totals[k]))}

RemoveZeroTotals(totals) == [k \in DOMAIN totals |-> NonZero(totals[k])]

\* load, `check consistency of totals`: the sum of the amounts of the first
\* n bags of a list that hold the currency
RECURSIVE CheckSum(_, _, _)
CheckSum(seq, currency, n) ==
    IF n = 0 THEN 0
    ELSE IF seq[n].currency = currency /\ seq[n].amount # 0
    THEN DAdd(CheckSum(seq, currency, n - 1), seq[n].amount)
    ELSE CheckSum(seq, currency, n - 1)

\* check_totals[ex]: an entry for each currency with a non-empty bag
CheckLedger(seq) ==
    [c \in {seq[i].currency : i \in {j \in DOMAIN seq : seq[j].amount # 0}}
       |-> CheckSum(seq, c, Len(seq))]

\* the amounts of a list of bags in transit, added up under one key
RECURSIVE TransitSum(_, _)
TransitSum(seq, n) ==
    IF n = 0 THEN 0
    ELSE IF seq[n].amount # 0
    THEN DAdd(TransitSum(seq, n - 1), seq[n].amount)
    ELSE TransitSum(seq, n - 1)

\* check_transit: an entry for each currency in transit with a non-empty bag
CheckTransit(transit) ==
    [c \in {k \in DOMAIN transit :
              \E i \in DOMAIN transit[k] : transit[k][i].amount # 0}
       |-> TransitSum(transit[c], Len(transit[c]))]

CheckTotals(s) ==
    IF IsEmptyDict(CheckTransit(s.in_transit))
    THEN [ex \in DOMAIN s.bags |-> CheckLedger(s.bags[ex])]
    ELSE Put([ex \in DOMAIN s.bags |-> CheckLedger(s.bags[ex])], InTransit,
             CheckTransit(s.in_transit))

\* load: self.__dict__.update(d), then the check of the totals
load_checked(s1) ==
    IF CheckTotals(s1) # s1.totals THEN Raise(s1, "Exception") ELSE s1

load_updated(s, d, totals) ==
    load_checked([s EXCEPT !.profit = d.profit, !.bags = d.bags,
                           !.totals = totals, !.in_transit = d.in_transit,
                           !.last_date = d.last_date,
                           !.num_created_bags = d.num_created_bags,
                           !.dump_file = d.dump_file])

load_decoded(s, d) ==
    IF EmptiedKeys(d.totals) # {} THEN Raise(s, "RuntimeError")
    ELSE load_updated(s, d, RemoveZeroTotals(d.totals))

\* BagFIFO.load from a buffer that holds the text
load(s, text) == load_decoded(s, JsonLoad(text))

(***************************************************************************)
(* The state machine: one BagFIFO object and the calls made on it.  `log`  *)
(* is the history of the calls: for each the call, the fields before it,   *)
(* the exception it raised and the value it returned.                      *)
(***************************************************************************)
VARIABLES profit, bags, totals, in_transit, last_date, num_created_bags,
          dump_file, dump, log

vars == <<profit, bags, totals, in_transit, last_date, num_created_bags,
          dump_file, dump, log>>

\* bounds of the model
MaxCalls == 3

MaxAmount == 3

\* inputs
Exchanges == {"a", "B"}

Currencies == {"BTC", "XMR"}

Amounts == {1 * One, MaxAmount * One}

Fees == {0, 1 * One}

Costs == {1000 * One}

Times == {20200301, 20210301}

NaiveTimes == {-20210301}

\* the rate provider's answers at one time: a rate for every currency, or
\* none (get_rate raises KeyError)
FullRelation == [c \in Currencies |-> 2000 * One]

Relations == {EmptyDict, FullRelation}

\* A call that returns or aborts before it reads an argument behaves the
\* same for every value of that argument: such calls are drawn once, with
\* the arguments not read set to the values below.
Unread(amount, currency, fee, exch, relation) ==
    /\ amount = MaxAmount * One
    /\ currency = "BTC"
    /\ fee = 0
    /\ exch = "a"
    /\ relation = EmptyDict

\* The calls drawn; looksUp tells that the call asks the rate provider.
\* The second currency is held in lots of 1 on the first exchange only.
Drawn(dtime, amount, currency, fee, exch, relation, looksUp) ==
    /\ (~HasTz(dtime) \/ dtime < last_date)
          => Unread(amount, currency, fee, exch, relation)
    /\ amount = 0 => Unread(MaxAmount * One, currency, fee, exch, relation)
    /\ currency = BaseCurrency
          => Unread(MaxAmount * One, "BTC", fee, exch, relation)
    /\ ~looksUp => relation = EmptyDict
    /\ currency = "XMR" => (amount \in {0, One} /\ fee = 0 /\ exch = "a")

\* the object's fields as the record the methods work on
Self ==
    [profit |-> profit, bags |-> bags, totals |-> totals,
     in_transit |-> in_transit, last_date |-> last_date,
     num_created_bags |-> num_created_bags, dump_file |-> dump_file,
     dump |-> dump, exc |-> "none", ret |-> NoRet]

Fields(s) ==
    [profit |-> s.profit, bags |-> s.bags, totals |-> s.totals,
     in_transit |-> s.in_transit, last_date |-> s.last_date,
     num_created_bags |-> s.num_created_bags]

\* the last call, the fields before it, and the number of calls made
calls == Len(log)

op ==
    IF log = <<>>
    THEN [call |-> [name |-> "init"], exc |-> "none", ret |-> NoRet,
          pre |-> Fields(NewBagFIFO)]
    ELSE log[Len(log)]

pre == op.pre

\* the call `call` has run and left the object as r
Apply(r, call) ==
    /\ profit' = r.profit
    /\ bags' = r.bags
    /\ totals' = r.totals
    /\ in_transit' = r.in_transit
    /\ last_date' = r.last_date
    /\ num_created_bags' = r.num_created_bags
    /\ dump_file' = r.dump_file
    /\ dump' = r.dump
    /\ log' = Append(log, [call |-> call, exc |-> r.exc, ret |-> r.ret,
                           pre |-> Fields(Self)])

\* processing goes on until a call raises
Running(max) == op.exc = "none" /\ calls < max

\* the state after BagFIFO(base_currency, relation, json_dump)
Constructed(json_dump) ==
    /\ profit = BagFIFO(json_dump).profit
    /\ bags = BagFIFO(json_dump).bags
    /\ totals = BagFIFO(json_dump).totals
    /\ in_transit = BagFIFO(json_dump).in_transit
    /\ last_date = BagFIFO(json_dump).last_date
    /\ num_created_bags = BagFIFO(json_dump).num_created_bags
    /\ dump_file = BagFIFO(json_dump).dump_file
    /\ dump = BagFIFO(json_dump).dump
    /\ log = <<>>

Init == Constructed(DefaultDump)

BuyCall(t, a, c, k, e) ==
    [name |-> "buy_with_base_currency", dtime |-> t, amount |-> a,
     currency |-> c, cost |-> k, exchange |-> Capitalize(e)]

Buy ==
    /\ Running(MaxCalls)
    /\ \E t \in Times \cup NaiveTimes, a \in Amounts \cup {0},
          c \in Currencies \cup {BaseCurrency}, k \in Costs, e \in Exchanges :
         /\ Drawn(t, a, c, 0, e, EmptyDict, FALSE)
         /\ Apply(buy_with_base_currency(Self, t, a, c, k, e),
                  BuyCall(t, a, c, k, e))

MoveCall(name, t, c, a, f, e, rel) ==
    [name |-> name, dtime |-> t, amount |-> a, currency |-> c, fee |-> f,
     exchange |-> Capitalize(e), relation |-> rel]

Withdraw ==
    /\ Running(MaxCalls)
    /\ \E t \in Times \cup NaiveTimes, a \in Amounts \cup {0},
          c \in Currencies \cup {BaseCurrency}, f \in Fees, e \in Exchanges,
          rel \in Relations :
         /\ Drawn(t, a, c, f, e, rel, f > 0)
         /\ Apply(withdraw(Self, t, c, a, f, e, rel),
                  MoveCall("withdraw", t, c, a, f, e, rel))

Deposit ==
    /\ Running(MaxCalls)
    /\ \E t \in Times \cup NaiveTimes, a \in Amounts \cup {0},
          c \in Currencies \cup {BaseCurrency}, f \in Fees, e \in Exchanges,
          rel \in Relations :
         /\ Drawn(t, a, c, f, e, rel, f > 0)
         /\ Apply(deposit(Self, t, c, a, f, e, rel),
                  MoveCall("deposit", t, c, a, f, e, rel))

Pay ==
    /\ Running(MaxCalls)
    /\ \E t \in Times \cup NaiveTimes, a \in Amounts \cup {0},
          c \in Currencies \cup {BaseCurrency}, e \in Exchanges,
          rel \in Relations :
         /\ Drawn(t, a, c, 0, e, rel, TRUE)
         /\ Apply(pay(Self, t, c, a, e, rel),
                  MoveCall("pay", t, c, a, 0, e, rel))

\* the trade records fed in: acquisitions, deposits, withdrawals and
\* disposals of the first currency (for the base currency or the second
\* currency), with no fee, a fee in the sold or the bought currency or in a
\* third one, and a record with a negative amount
FeeChoices(feecurs) ==
    {<<"", 0>>} \cup {<<fc, f>> : fc \in feecurs, f \in Fees \ {0}}

TradesAt(t, e) ==
    {Trade(t, "BTC", a, BaseCurrency, k, "", 0, e) :
        a \in Amounts \cup {0}, k \in Costs}
    \cup {Trade(t, "BTC", a, "", 0, fee[1], fee[2], e) :
        a \in Amounts, fee \in FeeChoices({"BTC", "XMR"}) \ {<<"", 0>>}}
    \cup {Trade(t, "", 0, "BTC", a, fee[1], fee[2], e) :
        a \in Amounts, fee \in FeeChoices({"BTC", "XMR"}) \ {<<"", 0>>}}
    \cup {Trade(t, BaseCurrency, k, "BTC", a, fee[1], fee[2], e) :
        a \in Amounts, k \in Costs, fee \in FeeChoices({"BTC", "XMR"})}
    \cup {Trade(t, BaseCurrency, k, "BTC", MaxAmount * One, BaseCurrency, k, e) :
        k \in Costs}
    \cup {Trade(t, "XMR", One, "BTC", a, fee[1], fee[2], e) :
        a \in Amounts, fee \in FeeChoices({"BTC", "XMR"})}
    \cup {Trade(t, "BTC", -One, BaseCurrency, k, "", 0, e) : k \in Costs}

TradeCall(t, trade, e, rel) ==
    [name |-> "process_trade", dtime |-> t, trade |-> trade,
     exchange |-> Capitalize(e), relation |-> rel]

ProcessTrade ==
    /\ Running(MaxCalls)
    /\ \E t \in Times \cup NaiveTimes, e \in Exchanges, rel \in Relations :
         \E trade \in TradesAt(t, e) :
           /\ (~HasTz(t) \/ t < last_date \/ trade.buyval < 0)
                 => /\ trade = Trade(t, "BTC", -One, BaseCurrency,
                                     trade.sellval, "", 0, "a")
                    /\ rel = EmptyDict
           /\ (trade.sellcur \in {"", BaseCurrency} /\ trade.feeval = 0)
                 => rel = EmptyDict
           /\ Apply(process_trade(Self, trade, rel), TradeCall(t, trade, e, rel))

Next == Buy \/ Withdraw \/ Deposit \/ Pay \/ ProcessTrade

Spec == Init /\ [][Next]_vars

(***************************************************************************)
(* Snapshots: besides the calls above, the object is saved to a buffer and *)
(* loaded from it, the text taken as written or edited in one place.       *)
(***************************************************************************)
\* the edits of the text: none; a zero balance of the second currency
\* added under a key; a stored balance raised by one under a key; a Ledger
\* without lots added for a key
Edits == {"none", "zero", "more", "ledger"}

\* the keys edited: those of the stored totals, and an exchange not yet seen
NewExchange == "C"

EditKeys(text) == (DOMAIN text.totals) \cup {NewExchange}

Raised(entry) == EncodeDecimal(DecodeDecimal(entry) + One)

Edited(text, edit, k) ==
    CASE edit = "none" -> text
      [] edit = "zero" ->
           [text EXCEPT !.totals =
              Put(text.totals, k,
                  Put(Get(text.totals, k, EmptyDict), "XMR",
                      EncodeDecimal(0)))]
      [] edit = "more" ->
           [text EXCEPT !.totals =
              Put(text.totals, k,
                  Put(Get(text.totals, k, EmptyDict), "BTC",
                      Raised(Get(Get(text.totals, k, EmptyDict), "BTC",
                                 EncodeDecimal(0)))))]
      [] edit = "ledger" ->
           [text EXCEPT !.bags = Put(text.bags, k, <<>>)]

\* the edits drawn: each changes the text
DrawnEdit(text, edit, k) ==
    /\ edit = "none" => k = NewExchange
    /\ edit = "zero" => ~Has(Get(text.totals, k, EmptyDict), "XMR")
    /\ edit = "ledger" => (k # InTransit /\ ~Has(text.bags, k))

LoadCall(edit, k, text) ==
    [name |-> "load", edit |-> edit, key |-> k, text |-> text]

Load ==
    /\ Running(MaxCalls)
    /\ \E edit \in Edits, k \in EditKeys(JsonDump(save(Self))) :
         /\ DrawnEdit(JsonDump(save(Self)), edit, k)
         /\ Apply(load(Self, Edited(JsonDump(save(Self)), edit, k)),
                  LoadCall(edit, k, Edited(JsonDump(save(Self)), edit, k)))

NextSnapshot == Next \/ Load

SpecSnapshot == Init /\ [][NextSnapshot]_vars

(***************************************************************************)
(* Transfers: lots of the first currency are bought on either exchange, at *)
(* the price of the day, and withdrawn and deposited without fee on the    *)
(* last day.                                                               *)
(***************************************************************************)
MaxTransferCalls == 5

TransferDay == CHOOSE t \in Times : \A u \in Times : u <= t

\* the cost of MaxAmount of the first currency on day t
CostOn(t) == IF t = TransferDay THEN 2000 * One ELSE 1000 * One

TransferBuy ==
    /\ Running(MaxTransferCalls)
    /\ \E t \in Times, e \in Exchanges :
         Apply(buy_with_base_currency(Self, t, MaxAmount * One, "BTC",
                                      CostOn(t), e),
               BuyCall(t, MaxAmount * One, "BTC", CostOn(t), e))

TransferWithdraw ==
    /\ Running(MaxTransferCalls)
    /\ \E a \in Amounts, e \in Exchanges :
         Apply(withdraw(Self, TransferDay, "BTC", a, 0, e, EmptyDict),
               MoveCall("withdraw", TransferDay, "BTC", a, 0, e, EmptyDict))

TransferDeposit ==
    /\ Running(MaxTransferCalls)
    /\ \E a \in Amounts, e \in Exchanges :
         Apply(deposit(Self, TransferDay, "BTC", a, 0, e, EmptyDict),
               MoveCall("deposit", TransferDay, "BTC", a, 0, e, EmptyDict))

NextTransfer == TransferBuy \/ TransferWithdraw \/ TransferDeposit

SpecTransfer == Init /\ [][NextTransfer]_vars

\* the same calls on an object constructed with json_dump=None
InitNoDump == Constructed(None)

SpecNoDump == InitNoDump /\ [][NextTransfer]_vars

(***************************************************************************)
(* The fee scenario of withdraw's documentation: an amount is bought on    *)
(* the first exchange, withdrawn for a fee, deposited on the second        *)
(* exchange and sold there for base currency.                              *)
(***************************************************************************)
ScenarioDay == CHOOSE t \in Times : \A u \in Times : t <= u

\* the days of the sale: in the year after the purchase, and a year after
SaleDays == {20201201, 20210301}

ScenarioAmounts == {n * One : n \in 1..MaxAmount}

ScenarioCosts == {1000 * One, 2000 * One, 3000 * One}

ScenarioFees == {One \div 10, One}

\* the rates at the sale; the last one values 0.9 at 2000
ScenarioRates == {1000 * One, 2000 * One, DDiv(2000 * One, 9 * (One \div 10))}

ScenarioBuy ==
    /\ log = <<>>
    /\ \E a \in ScenarioAmounts, c \in ScenarioCosts :
         Apply(buy_with_base_currency(Self, ScenarioDay, a, "BTC", c, "a"),
               BuyCall(ScenarioDay, a, "BTC", c, "a"))

ScenarioWithdraw ==
    /\ Len(log) = 1
    /\ op.exc = "none"
    /\ \E f \in ScenarioFees :
         /\ f < op.call.amount
         /\ Apply(withdraw(Self, ScenarioDay, "BTC", op.call.amount, f, "a",
                           FullRelation),
                  MoveCall("withdraw", ScenarioDay, "BTC", op.call.amount, f,
                           "a", FullRelation))

ScenarioDeposit ==
    /\ Len(log) = 2
    /\ op.exc = "none"
    /\ Apply(deposit(Self, ScenarioDay, "BTC",
                     DSub(op.call.amount, op.call.fee), 0, "B", EmptyDict),
             MoveCall("deposit", ScenarioDay, "BTC",
                      DSub(op.call.amount, op.call.fee), 0, "B", EmptyDict))

\* the trade record of the sale: the base currency bought is the amount
\* sold at the rate of the day
Sale(t, amount, rate) ==
    Trade(t, BaseCurrency, DMul(amount, rate), "BTC", amount, "", 0, "B")

ScenarioSell ==
    /\ Len(log) = 3
    /\ op.exc = "none"
    /\ \E t \in SaleDays, r \in ScenarioRates :
         Apply(process_trade(Self, Sale(t, op.call.amount, r),
                             [c \in {"BTC"} |-> r]),
               TradeCall(t, Sale(t, op.call.amount, r), "B",
                         [c \in {"BTC"} |-> r]))

NextScenario ==
    ScenarioBuy \/ ScenarioWithdraw \/ ScenarioDeposit \/ ScenarioSell

SpecScenario == Init /\ [][NextScenario]_vars

(***************************************************************************)
(* is_short_term on its own: the function is applied to an acquisition     *)
(* date and a later date.                                                  *)
(***************************************************************************)
Dates ==
    {MkDate(y, m, d) : y \in 2019..2021, m \in {1, 2, 3, 12},
                       d \in {1, 28, 29, 30, 31}}

IsDate(x) ==
    /\ MonthOf(x) \in 1..12
    /\ DayOf(x) \in 1..DaysInMonth(YearOf(x), MonthOf(x))

ShortTermCall(adate, tdate) ==
    [call |-> [name |-> "is_short_term", adate |-> adate, tdate |-> tdate],
     exc |-> "none", ret |-> is_short_term(adate, tdate),
     pre |-> Fields(Self)]

ShortTerm ==
    /\ log = <<>>
    /\ \E adate \in Dates, tdate \in Dates :
         /\ IsDate(adate)
         /\ IsDate(tdate)
         /\ adate <= tdate
         /\ log' = <<ShortTermCall(adate, tdate)>>
    /\ UNCHANGED <<profit, bags, totals, in_transit, last_date,
                   num_created_bags, dump_file, dump>>

SpecShortTerm == Init /\ [][ShortTerm]_vars

(***************************************************************************)
(* Bag.spend on its own: a lot is created from a cost or from a price and  *)
(* an amount is spent out of it.                                           *)
(***************************************************************************)
LotAmounts == {n * One : n \in 1..MaxAmount}

LotCosts == {0, 100 * One, 1000 * One, 2000 * One}

LotPrices == {One \div 2, 3333 * (One \div 10), 6667 * (One \div 10),
              1000 * One}

SpentAmounts ==
    {One \div 2, 3 * (One \div 2)} \cup {n * One : n \in 1..(MaxAmount + 1)}

\* the lots: Bag(..., cost) and Bag(..., price=price)
NewLots ==
    {Bag(1, Epoch, "BTC", a, BaseCurrency, c) :
       a \in LotAmounts, c \in LotCosts}
      \cup {BagWithPrice(1, Epoch, "BTC", a, BaseCurrency, 0, p) :
              a \in LotAmounts, p \in LotPrices}

SpendCall(bag, amount) ==
    [call |-> [name |-> "spend", bag |-> bag, amount |-> amount],
     exc |-> "none", ret |-> spend(bag, amount), pre |-> Fields(Self)]

Spend ==
    /\ log = <<>>
    /\ \E bag \in NewLots, amount \in SpentAmounts :
         log' = <<SpendCall(bag, amount)>>
    /\ UNCHANGED <<profit, bags, totals, in_transit, last_date,
                   num_created_bags, dump_file, dump>>

SpecSpend == Init /\ [][Spend]_vars

(***************************************************************************)
(* BagFIFO._move_bags on its own: an amount of the first currency is moved *)
(* from one list of bags to another.                                       *)
(***************************************************************************)
MaxSrc == 2

\* currency, amount, cost and dtime of the bags in the lists
BagShapes ==
    {<<"BTC", One, 1000 * One, 20200301>>,
     <<"BTC", MaxAmount * One, 2000 * One, 20210301>>,
     <<"BTC", MaxAmount * One, 3000 * One, 20200301>>,
     <<"XMR", One, 10 * One, 20210301>>}

Shaped(id, shape) ==
    Bag(id, shape[4], shape[1], shape[2], BaseCurrency, shape[3])

\* the lists moved from: up to MaxSrc bags, with the ids 1, 2, ...
SrcLists ==
    UNION {{[i \in 1..n |-> Shaped(i, f[i])] : f \in [1..n -> BagShapes]} :
             n \in 0..MaxSrc}

\* the lists moved to: empty, or holding one bag
DestLists ==
    {<<>>, <<Shaped(MaxSrc + 1, <<"BTC", One, 1000 * One, 20200301>>)>>}

MovedAmounts == {n * One : n \in 1..(MaxAmount + 1)}

MoveBagsCall(src, dest, amount) ==
    [call |-> [name |-> "_move_bags", src |-> src, dest |-> dest,
               amount |-> amount, currency |-> "BTC", num |-> MaxSrc + 1],
     exc |-> move_bags(src, dest, amount, "BTC", MaxSrc + 1).exc,
     ret |-> move_bags(src, dest, amount, "BTC", MaxSrc + 1),
     pre |-> Fields(Self)]

MoveBags ==
    /\ log = <<>>
    /\ \E src \in SrcLists, dest \in DestLists, amount \in MovedAmounts :
         log' = <<MoveBagsCall(src, dest, amount)>>
    /\ UNCHANGED <<profit, bags, totals, in_transit, last_date,
                   num_created_bags, dump_file, dump>>

SpecMove == Init /\ [][MoveBags]_vars

(***************************************************************************)
(* Transfers with a deposit fee: the first currency is bought, withdrawn   *)
(* without a fee and deposited with or without one.                        *)
(***************************************************************************)
MaxFeeCalls == 4

FeeBuy == Running(MaxFeeCalls) /\ TransferBuy

FeeWithdraw == Running(MaxFeeCalls) /\ TransferWithdraw

FeeDeposit ==
    /\ Running(MaxFeeCalls)
    /\ \E a \in Amounts, f \in Fees, e \in Exchanges, rel \in Relations :
         /\ f = 0 => rel = EmptyDict
         /\ Apply(deposit(Self, TransferDay, "BTC", a, f, e, rel),
                  MoveCall("deposit", TransferDay, "BTC", a, f, e, rel))

NextFee == FeeBuy \/ FeeWithdraw \/ FeeDeposit

SpecFee == Init /\ [][NextFee]_vars

(***************************************************************************)
(* Payments: the currencies are bought on two days, part is withdrawn, and *)
(* amounts of the first currency are paid, as a fee or not.                *)
(***************************************************************************)
MaxPayCalls == 4

PayCall(t, c, a, e, rel, is_fee) ==
    [name |-> "pay", dtime |-> t, amount |-> a, currency |-> c, fee |-> 0,
     exchange |-> Capitalize(e), relation |-> rel, is_fee |-> is_fee]

\* MaxAmount of the first currency or 1 of the second is bought
PaidBuy ==
    /\ Running(MaxPayCalls)
    /\ \E t \in Times, c \in Currencies, e \in Exchanges :
         Apply(buy_with_base_currency(
                 Self, t, IF c = "BTC" THEN MaxAmount * One ELSE One, c,
                 CostOn(t), e),
               BuyCall(t, IF c = "BTC" THEN MaxAmount * One ELSE One, c,
                       CostOn(t), e))

PaidWithdraw == Running(MaxPayCalls) /\ TransferWithdraw

\* is_fee is read only where pay writes its log messages
PaidPay ==
    /\ Running(MaxPayCalls)
    /\ \E a \in Amounts, e \in Exchanges, is_fee \in BOOLEAN :
         Apply(pay(Self, TransferDay, "BTC", a, e, FullRelation),
               PayCall(TransferDay, "BTC", a, e, FullRelation, is_fee))

NextPay == PaidBuy \/ PaidWithdraw \/ PaidPay

SpecPay == Init /\ [][NextPay]_vars

(***************************************************************************)
(* Properties.                                                             *)
(***************************************************************************)
\* the sum of the field `what` ("amount" or "cost") over the lots of the
\* currency in a sequence of lots
RECURSIVE LotSum(_, _, _)
LotSum(seq, currency, what) ==
    IF seq = <<>> THEN 0
    ELSE (IF Head(seq).currency # currency THEN 0
          ELSE IF what = "amount" THEN Head(seq).amount
          ELSE Head(seq).cost)
         + LotSum(Tail(seq), currency, what)

Lots(seq) == {seq[i] : i \in DOMAIN seq}

LotsOf(seq, currency) == {b \in Lots(seq) : b.currency = currency}

\* the last call was let past the timestamp check, the no-op check and the
\* base-currency check
Entered ==
    /\ HasTz(op.call.dtime)
    /\ op.call.dtime >= pre.last_date
    /\ op.call.amount > 0
    /\ op.call.currency # BaseCurrency

\* C1: after any sequence of operations that all completed, for every
\* exchange and currency totals[exchange][currency] is the sum of the
\* amounts of the currency's lots in bags[exchange], and
\* totals['in_transit'][currency] is the sum of the amounts of the lots in
\* in_transit[currency]; an absent entry counts as 0.
C1_TotalsMatchLots ==
    op.exc = "none" =>
      /\ \A ex \in (DOMAIN bags) \cup ((DOMAIN totals) \ {InTransit}),
            c \in Currencies :
           Get(Get(totals, ex, EmptyDict), c, 0)
             = LotSum(Get(bags, ex, <<>>), c, "amount")
      /\ \A c \in Currencies :
           Get(Get(totals, InTransit, EmptyDict), c, 0)
             = LotSum(Get(in_transit, c, <<>>), c, "amount")

\* a deposit has moved part of what was staged to an exchange, with lots
\* left in transit
C1_Witness ==
    /\ op.exc = "none"
    /\ op.call.name = "deposit"
    /\ Get(in_transit, "BTC", <<>>) # <<>>
    /\ in_transit # pre.in_transit
    /\ bags # pre.bags

\* C2: an operation that ends in a user-fixable error (ValueError) leaves
\* the Ledgers, the staging, the totals and the running profit as they
\* were before the call.
C2_RejectedLeavesState ==
    op.exc = "ValueError" =>
      /\ bags = pre.bags
      /\ in_transit = pre.in_transit
      /\ totals = pre.totals
      /\ profit = pre.profit

\* C3: a call that meets a user-fixable error (it reaches _abort: it ends in
\* ValueError, or in the TypeError of the save within _abort) surfaces the
\* error only after the snapshot is written, and the snapshot holds the
\* fields as they are when the error is raised.
C3_SnapshotBeforeError ==
    op.exc \in {"ValueError", "TypeError"} =>
      (dump.written /\ dump = save(Self))

\* with a file to save to, the snapshot written before the ValueError holds
\* the fields as they are when it is raised
SnapshotAtValueError ==
    op.exc = "ValueError" => dump = save(Self)

\* an error raised after the call has changed the Ledgers: the snapshot
\* holds the changed Ledgers
SnapshotOfChangedLedgers ==
    /\ op.exc = "ValueError"
    /\ dump.written
    /\ dump.bags # pre.bags
    /\ dump.bags = bags

Untouched ==
    LotsOf(Get(pre.bags, op.call.exchange, <<>>), op.call.currency)
      \cap Lots(Get(bags, op.call.exchange, <<>>))

Touched ==
    LotsOf(Get(pre.bags, op.call.exchange, <<>>), op.call.currency)
      \ Untouched

PartlyTouched ==
    {b \in Touched :
       \E r \in Lots(Get(bags, op.call.exchange, <<>>)) : r.id = b.id}

\* C5: pay and withdraw take the lots of the currency oldest first: every
\* lot spent or moved, wholly or partly, is at most as young as every lot
\* of the currency left untouched on the exchange, and at most one lot is
\* taken only partly.
C5_OldestFirst ==
    (op.call.name \in {"pay", "withdraw"} /\ op.exc = "none" /\ Entered) =>
      /\ \A t \in Touched, u \in Untouched : t.dtime <= u.dtime
      /\ Cardinality(PartlyTouched) <= 1

\* a lot has been taken partly and a younger lot is left untouched
C5_Witness ==
    /\ op.call.name \in {"pay", "withdraw"}
    /\ op.exc = "none"
    /\ Entered
    /\ PartlyTouched # {}
    /\ \E t \in Touched, u \in Untouched : t.dtime < u.dtime

\* the amount staged in transit for the deposited currency before the call
StagedBefore ==
    LotSum(Get(pre.in_transit, op.call.currency, <<>>), op.call.currency,
           "amount")

\* C9: a deposit (without fee) of more than is staged in transit for the
\* currency completes without an error: no lot of the currency is left in
\* transit, and one new lot of cost 0 holds the excess on the exchange.
C9_ExcessDepositCompletes ==
    (/\ op.call.name = "deposit"
     /\ Entered
     /\ op.call.fee = 0
     /\ StagedBefore < op.call.amount) =>
      /\ op.exc = "none"
      /\ Get(in_transit, op.call.currency, <<>>) = <<>>
      /\ \E b \in Lots(Get(bags, op.call.exchange, <<>>)) :
           /\ b.id = num_created_bags
           /\ b.cost = 0
           /\ b.amount = op.call.amount - StagedBefore

\* the lots that the last call has brought to its exchange
Arrived ==
    Lots(Get(bags, op.call.exchange, <<>>))
      \ Lots(Get(pre.bags, op.call.exchange, <<>>))

\* the sum of the field `what` over a set of lots
RECURSIVE SetSum(_, _)
SetSum(lots, what) ==
    IF lots = {} THEN 0
    ELSE LET b == CHOOSE x \in lots : TRUE
         IN  (IF what = "amount" THEN b.amount ELSE b.cost)
               + SetSum(lots \ {b}, what)

\* the last call is a deposit that has moved lots and left lots in transit
PartialDeposit ==
    /\ op.call.name = "deposit"
    /\ op.exc = "none"
    /\ Entered
    /\ in_transit # pre.in_transit
    /\ Get(in_transit, op.call.currency, <<>>) # <<>>

\* the staging sequence of the deposited currency before and after the
\* call, and the number of lots that have left it
StagingBefore == Get(pre.in_transit, op.call.currency, <<>>)

StagingAfter == Get(in_transit, op.call.currency, <<>>)

LeftStaging == Len(StagingBefore) - Len(StagingAfter)

IsSortedByDtime(seq) ==
    \A i, j \in DOMAIN seq : i < j => seq[i].dtime <= seq[j].dtime

\* C6 as stated: when a deposit moves only part of what is staged, no lot
\* left in transit was acquired strictly earlier than a lot or lot portion
\* that was moved to the exchange.
C6_DepositOldestFirst ==
    PartialDeposit =>
      \A m \in Arrived, r \in Lots(StagingAfter) : ~(r.dtime < m.dtime)

\* C6: a deposit takes the lots from the front of the staging sequence,
\* which is in the order of the withdrawals: what is left in transit is
\* the tail of the sequence, its first lot possibly reduced, and what
\* arrives are the lots before that tail and the portion split off its
\* first lot.  The lots moved are the oldest if the staging sequence is in
\* the order of acquisition.
C6_DepositFrontFirst ==
    PartialDeposit =>
      /\ LeftStaging >= 0
      /\ StagingAfter[1].id = StagingBefore[LeftStaging + 1].id
      /\ \A j \in 2..Len(StagingAfter) :
           StagingAfter[j] = StagingBefore[LeftStaging + j]
      /\ \A i \in 1..LeftStaging : StagingBefore[i] \in Arrived
      /\ \A m \in Arrived :
           \/ \E i \in 1..LeftStaging : StagingBefore[i] = m
           \/ /\ m.dtime = StagingBefore[LeftStaging + 1].dtime
              /\ m.amount = StagingBefore[LeftStaging + 1].amount
                              - StagingAfter[1].amount
              /\ m.amount > 0
      /\ IsSortedByDtime(StagingBefore) =>
           \A m \in Arrived, r \in Lots(StagingAfter) : m.dtime <= r.dtime

\* the staging held lots of two withdrawals, the younger lot in front: the
\* younger lot has arrived and the older one is left in transit
C6_Witness ==
    /\ PartialDeposit
    /\ LeftStaging >= 1
    /\ ~IsSortedByDtime(StagingBefore)
    /\ \E m \in Arrived, r \in Lots(StagingAfter) : r.dtime < m.dtime

\* the call before the last one
Withdrawal == log[Len(log) - 1]

\* the last two calls are a withdraw and a deposit of the same amount of
\* the same currency, both without fee, and both have completed
RoundTrip ==
    /\ Len(log) >= 2
    /\ Withdrawal.call.name = "withdraw"
    /\ op.call.name = "deposit"
    /\ Withdrawal.exc = "none"
    /\ op.exc = "none"
    /\ Entered
    /\ Withdrawal.call.fee = 0
    /\ op.call.fee = 0
    /\ Withdrawal.call.amount = op.call.amount
    /\ Withdrawal.call.currency = op.call.currency

\* the cost that the withdraw has taken off its exchange's Ledger
RemovedCost ==
    LotSum(Get(Withdrawal.pre.bags, Withdrawal.call.exchange, <<>>),
           op.call.currency, "cost")
      - LotSum(Get(pre.bags, Withdrawal.call.exchange, <<>>),
               op.call.currency, "cost")

NothingStagedBefore ==
    Get(Withdrawal.pre.in_transit, op.call.currency, <<>>) = <<>>

\* C7 as stated: a withdraw of x without fee followed by a deposit of x
\* without fee brings lots summing to x and to exactly the cost taken off
\* the source Ledger, and leaves the staging of the currency as it was
\* before the withdraw.
C7_RoundTripConserves ==
    RoundTrip =>
      /\ SetSum(Arrived, "amount") = op.call.amount
      /\ SetSum(Arrived, "cost") = RemovedCost
      /\ StagingAfter = Get(Withdrawal.pre.in_transit, op.call.currency, <<>>)

\* C7: when nothing is staged for the currency before the withdraw, the
\* lots that arrive sum to x and to exactly the cost staged by the
\* withdraw, and the staging is as it was before the withdraw; the cost
\* staged is exactly the cost taken off the source Ledger if the withdraw
\* has split no lot.
C7_RoundTripConservesStaged ==
    (RoundTrip /\ NothingStagedBefore) =>
      /\ SetSum(Arrived, "amount") = op.call.amount
      /\ SetSum(Arrived, "cost") = LotSum(StagingBefore, op.call.currency, "cost")
      /\ in_transit = Withdrawal.pre.in_transit
      /\ pre.num_created_bags = Withdrawal.pre.num_created_bags
           => SetSum(Arrived, "cost") = RemovedCost

\* a round trip between two exchanges whose withdraw has split a lot
C7_Witness ==
    /\ RoundTrip
    /\ NothingStagedBefore
    /\ pre.num_created_bags > Withdrawal.pre.num_created_bags
    /\ Withdrawal.call.exchange # op.call.exchange
    /\ SetSum(Arrived, "cost") > 0

\* the four calls of the fee scenario have completed: a bought for c,
\* a withdrawn for the fee f with 0 < f < a, a - f deposited, and a - f
\* sold without fee less than a year after the purchase
ScenarioDone ==
    /\ Len(log) = 4
    /\ \A i \in 1..4 : log[i].exc = "none"
    /\ log[1].call.name = "buy_with_base_currency"
    /\ log[2].call.name = "withdraw"
    /\ log[3].call.name = "deposit"
    /\ log[4].call.name = "process_trade"
    /\ log[2].call.amount = log[1].call.amount
    /\ log[2].call.fee > 0
    /\ log[2].call.fee < log[1].call.amount
    /\ log[3].call.amount = log[1].call.amount - log[2].call.fee
    /\ log[3].call.fee = 0
    /\ log[4].call.trade.sellval = log[3].call.amount
    /\ log[4].call.trade.buycur = BaseCurrency
    /\ log[4].call.trade.feeval = 0
    /\ log[4].call.dtime < log[1].call.dtime + 10000

\* the value p of the sale and the cost c of the purchase
SaleValue == log[4].call.trade.buyval

PurchaseCost == log[1].call.cost

\* the quotient c / a is a Decimal: the division does not round
ExactDiv(c, a) ==
    \E k \in 0..9 : Coef(DDiv(c, a)) * Coef(a) = Coef(c) * Pow10(k)

\* C8 as stated: at the end of the scenario the running profit is p - c.
C8_ScenarioProfit ==
    ScenarioDone => profit = SaleValue - PurchaseCost

\* C8: at the end of the scenario the running profit is the profit of the
\* sale, p less the cost of the lots sold, less the cost of the fee
\* realized by the withdraw; it is p - c if the price c / a of the lot is
\* an exact Decimal.
C8_ScenarioProfitExact ==
    ScenarioDone =>
      /\ profit = DAdd(log[3].pre.profit,
                       DSub(SaleValue,
                            LotSum(log[4].pre.bags["B"], "BTC", "cost")))
      /\ log[3].pre.profit
           = -DMul(log[2].call.fee, log[2].pre.bags["A"][1].price)
      /\ ExactDiv(PurchaseCost, log[1].call.amount)
           => profit = SaleValue - PurchaseCost

\* the instance a = 1, c = 1000, f = 0.1, p = 2000: the profit is -100
\* after the withdraw and 1000 at the end
C8_Witness ==
    /\ ScenarioDone
    /\ log[1].call.amount = One
    /\ PurchaseCost = 1000 * One
    /\ log[2].call.fee = One \div 10
    /\ SaleValue = 2000 * One
    /\ log[3].pre.profit = -100 * One
    /\ profit = 1000 * One

\* C10 as stated, the year counted back from T: for T at or after A,
\* is_short_term(A, T) is true iff A is less than one calendar year before
\* T: it is true for A one calendar year less a day before T and false for
\* A one calendar year before T.  (T less one calendar year is the same day
\* of the year before.)
C10_CalendarYear ==
    (op.call.name = "is_short_term" /\ IsDate(op.call.tdate - 10000)) =>
      (op.ret <=> op.call.adate > op.call.tdate - 10000)

\* the day one calendar year after A: the same day of the next year, and
\* the last day of February for February 29
OneYearAfter(adate) ==
    IF IsDate(adate + 10000) THEN adate + 10000
    ELSE MkDate(YearOf(adate) + 1, 2, 28)

\* C10: the year counted forward from A: for T at or after A,
\* is_short_term(A, T) is true iff T is before the day one calendar year
\* after A; a lot acquired on February 29 is long-term from February 28 of
\* the next year on.
C10_CalendarYearFromAcquisition ==
    (op.call.name = "is_short_term" /\ op.call.adate <= op.call.tdate) =>
      (op.ret <=> op.call.tdate < OneYearAfter(op.call.adate))

\* A is February 29 and T is February 28 of the next year: long-term, with
\* A one calendar year less a day after the day one year before T
C10_Witness ==
    /\ op.call.name = "is_short_term"
    /\ op.call.adate = 20200229
    /\ op.call.tdate = 20210228
    /\ ~op.ret

\* the last call has saved the object and loaded the text as written
SavedAndLoaded == op.call.name = "load" /\ op.call.edit = "none"

\* C11: load(save(engine)) reproduces the Ledgers and the staging with
\* every field of every lot, the running profit and the last-processed
\* time.
C11_RoundTrip ==
    SavedAndLoaded =>
      /\ op.exc = "none"
      /\ bags = pre.bags
      /\ in_transit = pre.in_transit
      /\ profit = pre.profit
      /\ last_date = pre.last_date

\* a lot as load rebuilds it: its cost is its amount times its price
Recosted(seq) ==
    [i \in DOMAIN seq |-> [seq[i] EXCEPT !.cost = DMul(seq[i].amount, seq[i].price)]]

\* what the round trip does keep: unless a stored balance of zero stops
\* the load, all comes back but the costs, which are computed anew
RoundTripButCost ==
    SavedAndLoaded =>
      IF \E k \in DOMAIN pre.totals : \A c \in DOMAIN pre.totals[k] : pre.totals[k][c] = 0
      THEN op.exc = "RuntimeError" /\ Fields(Self) = pre
      ELSE /\ op.exc = "none"
           /\ bags = [k \in DOMAIN pre.bags |-> Recosted(pre.bags[k])]
           /\ in_transit = [k \in DOMAIN pre.in_transit |-> Recosted(pre.in_transit[k])]
           /\ profit = pre.profit
           /\ last_date = pre.last_date
           /\ totals = pre.totals
           /\ num_created_bags = pre.num_created_bags

\* the snapshot that the last call has loaded, its stored balance of a
\* currency under a key (an absent or zero entry is 0) and the sum of the
\* amounts of the lots it holds for a currency under the key
LoadedText == JsonLoad(op.call.text)

StoredBalance(k, c) == Get(Get(LoadedText.totals, k, EmptyDict), c, 0)

LotBalance(k, c) ==
    IF k = InTransit
    THEN LotSum(Get(LoadedText.in_transit, c, <<>>), c, "amount")
    ELSE LotSum(Get(LoadedText.bags, k, <<>>), c, "amount")

BalancesAgree ==
    \A k \in (DOMAIN LoadedText.totals) \cup (DOMAIN LoadedText.bags)
               \cup {InTransit},
       c \in Currencies :
      StoredBalance(k, c) = LotBalance(k, c)

\* C12: load fails with the corrupted-snapshot error (Exception) iff the
\* balances recomputed from the lots of the snapshot differ from the stored
\* ones, zero-valued stored entries ignored; a snapshot whose stored
\* balances equal the lot sums is accepted.
C12_LoadChecksBalances ==
    op.call.name = "load" =>
      /\ op.exc = "Exception" <=> ~BalancesAgree
      /\ BalancesAgree => op.exc = "none"

\* the last call is Bag.spend of part of the lot, or of all of it and more
SpentPart ==
    /\ op.call.name = "spend"
    /\ 0 < op.call.amount
    /\ op.call.amount < op.call.bag.amount

SpentAll == op.call.name = "spend" /\ op.call.amount >= op.call.bag.amount

\* the product of two Decimals needs no rounding
ExactMul(a, b) ==
    RoundCoef(Coef(a) * Coef(b), FALSE) = Coef(a) * Coef(b)

\* C13 as stated: spend(x) with 0 < x < amount returns (x, x * price, 0),
\* leaves the price as it is and leaves cost = price * amount; spend(x)
\* with x >= amount returns (amount, cost, x - amount) and leaves the lot
\* empty.
C13_SpendKeepsCostAtPrice ==
    /\ SpentPart =>
         /\ op.ret.spent = op.call.amount
         /\ op.ret.bvalue = DMul(op.call.amount, op.call.bag.price)
         /\ op.ret.remainder = 0
         /\ op.ret.bag.price = op.call.bag.price
         /\ op.ret.bag.cost = DMul(op.ret.bag.price, op.ret.bag.amount)
    /\ SpentAll =>
         /\ op.ret.spent = op.call.bag.amount
         /\ op.ret.bvalue = op.call.bag.cost
         /\ op.ret.remainder = op.call.amount - op.call.bag.amount
         /\ is_empty(op.ret.bag)

\* C13: spend(x) with 0 < x < amount returns (x, x * price, 0), leaves the
\* price as it is, takes x off the amount and the returned value off the
\* cost; the cost left is price * amount if the lot's cost was
\* amount * price and none of the products needed rounding.  spend(x) with
\* x >= amount returns (amount, cost, x - amount) and leaves the lot empty.
C13_SpendTakesValueOffCost ==
    /\ SpentPart =>
         /\ op.ret.spent = op.call.amount
         /\ op.ret.bvalue = DMul(op.call.amount, op.call.bag.price)
         /\ op.ret.remainder = 0
         /\ op.ret.bag.price = op.call.bag.price
         /\ op.ret.bag.amount = op.call.bag.amount - op.call.amount
         /\ op.ret.bag.cost = DSub(op.call.bag.cost, op.ret.bvalue)
         /\ (/\ op.call.bag.cost
                  = DMul(op.call.bag.amount, op.call.bag.price)
             /\ ExactMul(op.call.bag.amount, op.call.bag.price)
             /\ ExactMul(op.call.amount, op.call.bag.price)
             /\ ExactMul(op.ret.bag.amount, op.call.bag.price))
              => op.ret.bag.cost
                   = DMul(op.ret.bag.price, op.ret.bag.amount)
    /\ SpentAll =>
         /\ op.ret.spent = op.call.bag.amount
         /\ op.ret.bvalue = op.call.bag.cost
         /\ op.ret.remainder = op.call.amount - op.call.bag.amount
         /\ is_empty(op.ret.bag)

\* part of a lot bought at a price that is a rounded quotient is spent: the
\* cost left is not price * amount
C13_Witness ==
    /\ SpentPart
    /\ op.call.bag.cost = 1000 * One
    /\ op.call.bag.amount = 3 * One
    /\ op.call.amount = One
    /\ op.ret.bag.cost # DMul(op.ret.bag.price, op.ret.bag.amount)

(***************************************************************************)
(* Fees of transfers                                                       *)
(***************************************************************************)
\* the object as it was before the last call
Before ==
    [profit |-> pre.profit, bags |-> pre.bags, totals |-> pre.totals,
     in_transit |-> pre.in_transit, last_date |-> pre.last_date,
     num_created_bags |-> pre.num_created_bags, dump_file |-> dump_file,
     dump |-> dump, exc |-> "none", ret |-> NoRet]

\* the last call was a withdraw or deposit with a fee, and has completed
FeeCharged ==
    /\ op.call.name \in {"withdraw", "deposit"}
    /\ op.call.amount > 0
    /\ op.call.fee > 0
    /\ op.exc = "none"

\* the payment of the fee: withdraw pays it before it moves the lots,
\* deposit after the lots have arrived
FeePayment ==
    IF op.call.name = "withdraw"
    THEN pay(Before, op.call.dtime, op.call.currency, op.call.fee,
             op.call.exchange, op.call.relation)
    ELSE pay(deposit(Before, op.call.dtime, op.call.currency, op.call.amount,
                     0, op.call.exchange, op.call.relation),
             op.call.dtime, op.call.currency, op.call.fee, op.call.exchange,
             op.call.relation)

\* C14: a withdraw or deposit with fee > 0 decreases the running profit by
\* the cost basis of the lots consumed to pay the fee, short-term or
\* long-term.
C14_FeeCostIsLoss ==
    FeeCharged => profit = DSub(pre.profit, FeePayment.ret.cost)

\* what the code does: only the cost of the short-term lots consumed is
\* taken off the profit
FeeShortTermCostIsLoss ==
    FeeCharged => profit = DSub(pre.profit, FeePayment.ret.st_cost)

\* a fee is paid out of a lot held for a year
LongTermFee ==
    /\ FeeCharged
    /\ FeePayment.ret.cost > 0
    /\ FeePayment.ret.st_cost = 0

(***************************************************************************)
(* Disposals                                                               *)
(***************************************************************************)
SoldTrade == op.call.trade

\* the last call was a trade of a held currency for another currency, and
\* has completed
Disposal ==
    /\ op.call.name = "process_trade"
    /\ op.exc = "none"
    /\ SoldTrade.buyval > 0
    /\ SoldTrade.sellval > 0
    /\ SoldTrade.buycur # ""
    /\ SoldTrade.sellcur \notin {"", BaseCurrency}

\* the lots of the sold currency the exchange held before the trade
HeldToSell ==
    LotsOf(Get(pre.bags, op.call.exchange, <<>>), SoldTrade.sellcur)

\* what is left of lot b after the trade (nothing if the lot is gone)
LeftOf(b, what) ==
    SetSum({r \in Lots(Get(bags, op.call.exchange, <<>>)) : r.id = b.id}, what)

ConsumedOf(b, what) ==
    (IF what = "amount" THEN b.amount ELSE b.cost) - LeftOf(b, what)

ConsumedLots == {b \in HeldToSell : ConsumedOf(b, "amount") > 0}

ShortTermLots ==
    {b \in ConsumedLots : is_short_term(b.dtime, SoldTrade.dtime)}

RECURSIVE ProceedsOf(_)

\* the amounts consumed of the lots, each times the provider's rate
ProceedsOf(lots) ==
    IF lots = {} THEN 0
    ELSE DAdd(DMul(ConsumedOf(CHOOSE b \in lots : TRUE, "amount"),
                   op.call.relation[SoldTrade.sellcur]),
              ProceedsOf(lots \ {CHOOSE b \in lots : TRUE}))

RECURSIVE CostBasisOf(_)

CostBasisOf(lots) ==
    IF lots = {} THEN 0
    ELSE DAdd(ConsumedOf(CHOOSE b \in lots : TRUE, "cost"),
              CostBasisOf(lots \ {CHOOSE b \in lots : TRUE}))

\* feeP of the claim
FeeShare ==
    IF SoldTrade.feeval = 0 THEN 0
    ELSE IF SoldTrade.feecur = SoldTrade.sellcur
    THEN DDiv(SoldTrade.feeval, SoldTrade.sellval)
    ELSE DDiv(SoldTrade.feeval, DAdd(SoldTrade.buyval, SoldTrade.feeval))

\* C15: a disposal changes the running profit by exactly
\* (1 - feeP) * stProceeds - stCost, the proceeds and cost basis of the
\* short-term lots consumed only, with feeP = fee / sellAmount for a fee in
\* the sold currency, fee / (buyAmount + fee) for a fee in the bought
\* currency and 0 without a fee; lots held a year or longer add nothing.
C15_DisposalProfit ==
    Disposal =>
      /\ profit = DAdd(pre.profit,
                       DSub(DMul(DSub(One, FeeShare),
                                 ProceedsOf(ShortTermLots)),
                            CostBasisOf(ShortTermLots)))
      /\ ShortTermLots = {} => profit = pre.profit

\* a disposal with a fee that consumes a lot held for a year and a younger
\* lot, at a profit
C15_Witness ==
    /\ Disposal
    /\ SoldTrade.feeval > 0
    /\ ShortTermLots # {}
    /\ ShortTermLots # ConsumedLots
    /\ profit # pre.profit

(***************************************************************************)
(* Dispatch of trades                                                      *)
(***************************************************************************)
\* the last call was a trade that passed the checks of its timestamp and
\* of the signs of its amounts
Dispatched ==
    /\ op.call.name = "process_trade"
    /\ HasTz(SoldTrade.dtime)
    /\ SoldTrade.dtime >= pre.last_date
    /\ SoldTrade.buyval >= 0
    /\ SoldTrade.sellval >= 0
    /\ SoldTrade.feeval >= 0

\* the trade has left the object as the operation that ends as r does
SameAs(r) == Fields(r) = Fields(Self) /\ r.exc = op.exc

SameLots(r) ==
    /\ r.bags = bags
    /\ r.totals = totals
    /\ r.in_transit = in_transit
    /\ r.num_created_bags = num_created_bags
    /\ r.exc = op.exc

IsAcquisition == SoldTrade.sellcur = BaseCurrency /\ SoldTrade.sellval # 0

IsDeposit ==
    ~IsAcquisition /\ (SoldTrade.sellcur = "" \/ SoldTrade.sellval = 0)

IsWithdrawal ==
    /\ ~IsAcquisition
    /\ ~IsDeposit
    /\ (SoldTrade.buycur = "" \/ SoldTrade.buyval = 0)

IsDisposal == ~IsAcquisition /\ ~IsDeposit /\ ~IsWithdrawal

\* the fee is in a currency the operation does not take fees in
FeeUnsupported ==
    /\ SoldTrade.feeval > 0
    /\ \/ IsDeposit /\ SoldTrade.feecur # SoldTrade.buycur
       \/ IsWithdrawal /\ SoldTrade.feecur # SoldTrade.sellcur
       \/ /\ IsDisposal
          /\ SoldTrade.feecur \notin {SoldTrade.sellcur, SoldTrade.buycur}

\* the payment of a disposal, and the reacquisition after it
SalePaid ==
    pay(Before, SoldTrade.dtime, SoldTrade.sellcur, SoldTrade.sellval,
        SoldTrade.exchange, op.call.relation)

Reacquired ==
    IF SalePaid.exc # "none" \/ SoldTrade.buycur = BaseCurrency THEN SalePaid
    ELSE buy_with_base_currency(SalePaid, SoldTrade.dtime, SoldTrade.buyval,
                                SoldTrade.buycur,
                                DMul(SalePaid.ret.rev, DSub(One, FeeShare)),
                                SoldTrade.exchange)

\* the operation the trade's fields select has been performed
OneOfFour ==
    /\ IsAcquisition =>
         SameAs(buy_with_base_currency(Before, SoldTrade.dtime,
                                       SoldTrade.buyval, SoldTrade.buycur,
                                       SoldTrade.sellval, SoldTrade.exchange))
    /\ (IsDeposit /\ ~FeeUnsupported) =>
         SameAs(deposit(Before, SoldTrade.dtime, SoldTrade.buycur,
                        SoldTrade.buyval, SoldTrade.feeval,
                        SoldTrade.exchange, op.call.relation))
    /\ (IsWithdrawal /\ ~FeeUnsupported) =>
         SameAs(withdraw(Before, SoldTrade.dtime, SoldTrade.sellcur,
                         SoldTrade.sellval, SoldTrade.feeval,
                         SoldTrade.exchange, op.call.relation))
    /\ (IsDisposal /\ ~FeeUnsupported) => SameLots(Reacquired)

LedgerBefore == Get(pre.bags, op.call.exchange, <<>>)

LedgerAfter == Get(bags, op.call.exchange, <<>>)

\* one lot of buyAmount with total cost sellAmount is added to the
\* exchange; profit, transit and all other lots are as before
OneLotAdded ==
    /\ Len(LedgerAfter) = Len(LedgerBefore) + 1
    /\ SubSeq(LedgerAfter, 1, Len(LedgerBefore)) = LedgerBefore
    /\ LedgerAfter[Len(LedgerAfter)].currency = SoldTrade.buycur
    /\ LedgerAfter[Len(LedgerAfter)].amount = SoldTrade.buyval
    /\ LedgerAfter[Len(LedgerAfter)].cost = SoldTrade.sellval
    /\ \A k \in (DOMAIN pre.bags) \ {op.call.exchange} :
         Has(bags, k) /\ bags[k] = pre.bags[k]
    /\ DOMAIN bags = DOMAIN pre.bags \cup {op.call.exchange}
    /\ profit = pre.profit
    /\ in_transit = pre.in_transit

\* C16 as stated: a trade performs the one operation its fields select,
\* and every acquisition adds one lot of buyAmount with cost sellAmount.
C16_AcquisitionAddsLot ==
    Dispatched =>
      /\ OneOfFour
      /\ (IsAcquisition /\ op.exc = "none") => OneLotAdded

\* C16: a trade that passes the checks of its timestamp and signs performs
\* exactly the operation its fields select, in the precedence acquisition,
\* deposit, withdrawal, disposal plus reacquisition, unless its fee is in
\* a currency that operation does not take, when it is rejected.  An
\* acquisition of buyAmount > 0 adds one lot of buyAmount with total cost
\* sellAmount to the exchange and leaves profit, transit and every other
\* lot as they were; an acquisition of buyAmount = 0 adds nothing.
C16_Dispatch ==
    Dispatched =>
      /\ OneOfFour
      /\ FeeUnsupported =>
           /\ op.exc = "ValueError"
           /\ bags = pre.bags /\ in_transit = pre.in_transit
           /\ totals = pre.totals /\ profit = pre.profit
      /\ (IsAcquisition /\ op.exc = "none" /\ SoldTrade.buyval > 0)
           => OneLotAdded
      /\ (IsAcquisition /\ op.exc = "none" /\ SoldTrade.buyval = 0)
           => /\ bags = pre.bags /\ in_transit = pre.in_transit
              /\ totals = pre.totals /\ profit = pre.profit

\* an acquisition onto an exchange that holds a lot already
C16_Witness ==
    /\ Dispatched
    /\ IsAcquisition
    /\ op.exc = "none"
    /\ SoldTrade.buyval > 0
    /\ Len(LedgerBefore) > 0
    /\ OneLotAdded

(***************************************************************************)
(* Insufficient balances                                                   *)
(***************************************************************************)
\* the balance the index held for the last call's exchange and currency
BalanceBefore ==
    Get(Get(pre.totals, op.call.exchange, EmptyDict), op.call.currency, 0)

\* the last call was a withdraw or pay, let past the timestamp check, of
\* more than the balance
Overdrawn ==
    /\ op.call.name \in {"withdraw", "pay"}
    /\ HasTz(op.call.dtime)
    /\ op.call.dtime >= pre.last_date
    /\ op.call.amount > BalanceBefore

\* C17: a withdraw or pay of more than BalanceIndex[exchange][currency]
\* (an absent entry counting as 0) ends in the user-fixable error, and no
\* lot is spent, split or moved by the call.
C17_OverdrawRejected ==
    Overdrawn =>
      /\ op.exc = "ValueError"
      /\ bags = pre.bags
      /\ in_transit = pre.in_transit
      /\ totals = pre.totals
      /\ num_created_bags = pre.num_created_bags
      /\ profit = pre.profit

\* more is withdrawn, with a fee, than the lots of the currency on the
\* exchange hold
C17_Witness ==
    /\ Overdrawn
    /\ op.call.name = "withdraw"
    /\ op.call.fee > 0
    /\ BalanceBefore > 0
    /\ op.exc = "ValueError"

(***************************************************************************)
(* Lot ids                                                                 *)
(***************************************************************************)
RECURSIVE HeldCount(_, _)

\* the number of lots the lists of d under the keys hold
HeldCount(d, keys) ==
    IF keys = {} THEN 0
    ELSE Len(d[CHOOSE k \in keys : TRUE])
           + HeldCount(d, keys \ {CHOOSE k \in keys : TRUE})

\* the ids of the lots on the exchanges and in transit
HeldIds ==
    UNION {{bags[k][i].id : i \in DOMAIN bags[k]} : k \in DOMAIN bags}
      \cup UNION {{in_transit[c][i].id : i \in DOMAIN in_transit[c]} :
                    c \in DOMAIN in_transit}

\* C18: all lots on the exchanges and in transit have pairwise distinct
\* ids, none above the counter of created lots; no lot is held twice, by
\* two containers or by one; the counter never decreases.
C18_DistinctIds ==
    /\ Cardinality(HeldIds)
         = HeldCount(bags, DOMAIN bags) + HeldCount(in_transit, DOMAIN in_transit)
    /\ \A id \in HeldIds : 1 <= id /\ id <= num_created_bags
    /\ num_created_bags >= pre.num_created_bags

\* a withdraw has split a lot, and the two parts are held by the exchange
\* and by transit
C18_Witness ==
    /\ op.call.name = "withdraw"
    /\ op.exc = "none"
    /\ num_created_bags = pre.num_created_bags + 1
    /\ \E k \in DOMAIN bags, c \in DOMAIN in_transit :
         \E i \in DOMAIN bags[k], j \in DOMAIN in_transit[c] :
           /\ bags[k][i].dtime = in_transit[c][j].dtime
           /\ bags[k][i].id < in_transit[c][j].id

(***************************************************************************)
(* Withdrawals within the balance                                          *)
(***************************************************************************)
TransitBalance(t) == Get(Get(t, InTransit, EmptyDict), op.call.currency, 0)

\* the last call was a withdraw with a timezone-aware in-order time, a
\* currency other than the base currency, 0 <= fee <= amount <= balance
\* and a rate at hand
WithinBalance ==
    /\ op.call.name = "withdraw"
    /\ HasTz(op.call.dtime)
    /\ op.call.dtime >= pre.last_date
    /\ op.call.currency # BaseCurrency
    /\ 0 <= op.call.fee
    /\ op.call.fee <= op.call.amount
    /\ 0 < op.call.amount
    /\ op.call.amount <= BalanceBefore
    /\ Has(op.call.relation, op.call.currency)

\* C19: a withdraw with 0 <= fee <= amount <= balance completes without an
\* error, takes amount off the balance of the exchange and adds
\* amount - fee to the balance in transit, also with fee = amount and with
\* amount = the whole balance.
C19_WithdrawCompletes ==
    WithinBalance =>
      /\ op.exc = "none"
      /\ Get(Get(totals, op.call.exchange, EmptyDict), op.call.currency, 0)
           = BalanceBefore - op.call.amount
      /\ TransitBalance(totals)
           = TransitBalance(pre.totals) + op.call.amount - op.call.fee

\* what holds: the same with fee < amount, or with fee = amount less than
\* the balance
WithdrawCompletesUnlessAllIsFee ==
    (WithinBalance
       /\ ~(op.call.fee = op.call.amount /\ op.call.amount = BalanceBefore)) =>
      /\ op.exc = "none"
      /\ Get(Get(totals, op.call.exchange, EmptyDict), op.call.currency, 0)
           = BalanceBefore - op.call.amount
      /\ TransitBalance(totals)
           = TransitBalance(pre.totals) + op.call.amount - op.call.fee

(***************************************************************************)
(* Order of the Ledgers                                                    *)
(***************************************************************************)
\* C20: in every reachable state each exchange's list of lots is in
\* ascending (non-decreasing) order of acquisition time, also after a
\* deposit has merged older lots from transit and after a deposit has made
\* a zero-cost lot.
C20_LedgersSorted == \A k \in DOMAIN bags : IsSortedByDtime(bags[k])

\* what holds: the lists are in order unless the last call has ended in an
\* IndexError
LedgersSortedUnlessIndexError ==
    op.exc # "IndexError" => \A k \in DOMAIN bags : IsSortedByDtime(bags[k])

(***************************************************************************)
(* Empty lots                                                              *)
(***************************************************************************)
\* the lots on the exchanges and in transit
HeldLots ==
    UNION {Lots(bags[k]) : k \in DOMAIN bags}
      \cup UNION {Lots(in_transit[c]) : c \in DOMAIN in_transit}

HeldIdsBefore ==
    UNION {{pre.bags[k][i].id : i \in DOMAIN pre.bags[k]} :
             k \in DOMAIN pre.bags}
      \cup UNION {{pre.in_transit[c][i].id : i \in DOMAIN pre.in_transit[c]} :
                    c \in DOMAIN pre.in_transit}

\* the last call pays out of lots: a pay, a transfer with a fee or a trade
\* that sells a held currency
PaysOut ==
    \/ op.call.name = "pay"
    \/ op.call.name \in {"withdraw", "deposit"} /\ op.call.fee > 0
    \/ op.call.name = "process_trade" /\ SoldTrade.sellcur # BaseCurrency

\* C21: no list of an exchange or of transit holds a lot with amount 0 or
\* below; a lot leaves the containers only when a payment has taken all of
\* its amount.
C21_NoEmptyLots ==
    /\ \A b \in HeldLots : b.amount > 0
    /\ (HeldIdsBefore \ HeldIds # {}) => PaysOut

\* a pay has taken the whole of a lot and part of the next
C21_Witness ==
    /\ op.call.name = "pay"
    /\ op.exc = "none"
    /\ HeldIdsBefore \ HeldIds # {}
    /\ PartlyTouched # {}

(***************************************************************************)
(* Moves between lists                                                     *)
(***************************************************************************)
MovedCalled == op.call.name = "_move_bags"

\* the amount of the currency the list moved from held
HeldToMove == LotSum(op.call.src, op.call.currency, "amount")

\* the bags the move has added to the list moved to
Added ==
    {op.ret.dest[i] : i \in (Len(op.call.dest) + 1)..Len(op.ret.dest)}

\* those of them that are not bags of the list moved from: the split-off
\* bags
SplitOff == Added \ Lots(op.call.src)

\* split is a part of the bag b of the list moved from, whose other part is
\* left in that list; `sum` adds the costs of the two parts
IsPartOf(split, b, exactly) ==
    /\ split.id = op.call.num + 1
    /\ split.dtime = b.dtime
    /\ split.currency = b.currency
    /\ split.cost_currency = b.cost_currency
    /\ \E r \in Lots(op.ret.src) :
         /\ r.id = b.id
         /\ [r EXCEPT !.amount = b.amount, !.cost = b.cost] = b
         /\ split.amount + r.amount = b.amount
         /\ IF exactly THEN split.cost + r.cost = b.cost
            ELSE split.cost = DMul(split.amount, b.price)
                   /\ r.cost = DSub(b.cost, split.cost)

\* whole bags are moved as they are, at most one bag is split, the bags of
\* other currencies and the bags moved to before stay
MovedAndSplit(exactly) ==
    /\ SubSeq(op.ret.dest, 1, Len(op.call.dest)) = op.call.dest
    /\ Cardinality(SplitOff) <= 1
    /\ \A split \in SplitOff :
         \E b \in LotsOf(op.call.src, op.call.currency) :
           IsPartOf(split, b, exactly)
    /\ \A b \in Lots(op.call.src) :
         \/ b \in Lots(op.ret.src) /\ b \notin Added
         \/ b \in Added /\ b \notin Lots(op.ret.src)
              /\ b.currency = op.call.currency
         \/ \E split \in SplitOff : IsPartOf(split, b, exactly)
    /\ Len(op.ret.src) + Len(op.ret.dest)
         = Len(op.call.src) + Len(op.call.dest) + Cardinality(SplitOff)
    /\ \A b \in Lots(op.call.src) :
         b.currency # op.call.currency => b \in Lots(op.ret.src)

\* C22: _move_bags moves whole bags as they are, with their ids, and splits
\* at most one: the split-off bag has a fresh id and the dtime, currency
\* and cost currency of the original, and the amounts and the costs of the
\* two parts add up to the original's; bags of other currencies stay; it
\* returns 0 when the list held the amount, and else the amount not found.
C22_MoveBags ==
    MovedCalled =>
      /\ op.exc = "none"
      /\ MovedAndSplit(TRUE)
      /\ op.ret.ret = IF HeldToMove >= op.call.amount THEN 0
                      ELSE op.call.amount - HeldToMove

\* the list moved from holds no bag of another currency behind the last
\* bag moved
RunsOffTheEnd ==
    /\ HeldToMove < op.call.amount
    /\ \/ op.call.src = <<>>
       \/ op.call.src[Len(op.call.src)].currency = op.call.currency

\* what holds: the move ends in an IndexError when it runs off the end of
\* the list, having moved what there was; the cost left in a split bag is
\* the original's less amount * price of the part split off
MoveBagsUnlessOffTheEnd ==
    MovedCalled =>
      /\ op.exc = IF RunsOffTheEnd THEN "IndexError" ELSE "none"
      /\ MovedAndSplit(FALSE)
      /\ op.ret.ret = IF HeldToMove >= op.call.amount THEN 0
                      ELSE op.call.amount - HeldToMove

(***************************************************************************)
(* Reacquisition                                                           *)
(***************************************************************************)
\* the lots held after the trade that were not held before it
NewLotsHeld == {b \in HeldLots : b.id \notin HeldIdsBefore}

\* C23: a disposal for a currency other than the base currency appends
\* exactly one new lot of buyAmount of the bought currency to the trade's
\* exchange, with total cost totProceeds * (1 - feeP), totProceeds being
\* the proceeds of all lots consumed, short-term or long-term; a disposal
\* for the base currency creates no lot.
C23_Reacquisition ==
    /\ (Disposal /\ SoldTrade.buycur # BaseCurrency) =>
         /\ NewLotsHeld = {LedgerAfter[Len(LedgerAfter)]}
         /\ LedgerAfter[Len(LedgerAfter)].id = pre.num_created_bags + 1
         /\ num_created_bags = pre.num_created_bags + 1
         /\ LedgerAfter[Len(LedgerAfter)].currency = SoldTrade.buycur
         /\ LedgerAfter[Len(LedgerAfter)].amount = SoldTrade.buyval
         /\ LedgerAfter[Len(LedgerAfter)].cost
              = DMul(ProceedsOf(ConsumedLots), DSub(One, FeeShare))
    /\ (Disposal /\ SoldTrade.buycur = BaseCurrency) =>
         /\ NewLotsHeld = {}
         /\ num_created_bags = pre.num_created_bags

\* a lot held for a year and a younger lot are sold for the second
\* currency, with a fee
C23_Witness ==
    /\ Disposal
    /\ SoldTrade.buycur # BaseCurrency
    /\ SoldTrade.feeval > 0
    /\ ShortTermLots # {}
    /\ ShortTermLots # ConsumedLots
    /\ Cardinality(NewLotsHeld) = 1

(***************************************************************************)
(* Fees of deposits                                                        *)
(***************************************************************************)
\* the deposit of the last call without its fee
Merged ==
    deposit(Before, op.call.dtime, op.call.currency, op.call.amount, 0,
            op.call.exchange, op.call.relation)

\* the last call was a deposit with a fee that has come to handle the fee
DepositFeeHandled ==
    /\ op.call.name = "deposit"
    /\ op.call.fee > 0
    /\ op.call.amount > 0
    /\ HasTz(op.call.dtime)
    /\ op.call.dtime >= pre.last_date
    /\ op.call.currency # BaseCurrency
    /\ Merged.exc = "none"

\* the lots of the currency on the exchange as the fee is handled
MergedLots ==
    LotsOf(Get(Merged.bags, op.call.exchange, <<>>), op.call.currency)

FeeTaken == MergedLots \ Lots(LedgerAfter)

\* the balance in transit less the amount, absent if that is not above 0
TransitLess(t, amount) ==
    IF TransitBalance(t) - amount <= 0 THEN 0 ELSE TransitBalance(t) - amount

\* C24: a deposit with fee > 0 takes the amount off the balance in transit
\* (and drops the entry at zero) before it handles the fee; the fee is then
\* paid out of the oldest lots of the currency on the exchange as merged
\* and sorted, which may be lots the exchange held before; the balance of
\* the exchange ends at its value before + amount - fee.
C24_DepositFee ==
    DepositFeeHandled =>
      /\ SameAs(FeeLoss(pay(Merged, op.call.dtime, op.call.currency,
                            op.call.fee, op.call.exchange, op.call.relation)))
      /\ IsSortedByDtime(Get(Merged.bags, op.call.exchange, <<>>))
      /\ Get(Get(Merged.totals, InTransit, EmptyDict), op.call.currency, 0)
           = TransitLess(pre.totals, op.call.amount)
      /\ op.exc = "ValueError" =>
           /\ TransitBalance(totals) = TransitLess(pre.totals, op.call.amount)
           /\ TransitBalance(dump.totals)
                = TransitLess(pre.totals, op.call.amount)
      /\ op.exc = "none" =>
           /\ TransitBalance(totals) = TransitLess(pre.totals, op.call.amount)
           /\ \A c \in FeeTaken, u \in MergedLots \ FeeTaken :
                c.dtime <= u.dtime
           /\ SetSum(MergedLots, "amount")
                - LotSum(LedgerAfter, op.call.currency, "amount")
                = op.call.fee
           /\ Get(Get(totals, op.call.exchange, EmptyDict),
                  op.call.currency, 0)
                = BalanceBefore + op.call.amount - op.call.fee

\* the fee of a deposit is taken from a lot that came out of transit, older
\* than the lot the exchange held, and the balance in transit is dropped
C24_Witness ==
    /\ DepositFeeHandled
    /\ op.exc = "none"
    /\ TransitBalance(pre.totals) > 0
    /\ TransitBalance(totals) = 0
    /\ \E c \in FeeTaken, u \in MergedLots \ FeeTaken :
         /\ c.dtime < u.dtime
         /\ u \in Lots(LedgerBefore)
         /\ c \notin Lots(LedgerBefore)

\* the fee of a deposit is taken from a lot the exchange held before, and
\* the lot deposited is left whole
FeeFromHeldLot ==
    /\ DepositFeeHandled
    /\ op.exc = "none"
    /\ \E c \in FeeTaken, u \in MergedLots \ FeeTaken :
         /\ c \in Lots(LedgerBefore)
         /\ u \notin Lots(LedgerBefore)

(***************************************************************************)
(* Zero balances                                                           *)
(***************************************************************************)
\* the last call was a withdraw with 0 <= fee <= amount that has completed
WithdrawCompleted ==
    /\ op.call.name = "withdraw"
    /\ op.exc = "none"
    /\ 0 < op.call.amount
    /\ 0 <= op.call.fee
    /\ op.call.fee <= op.call.amount

\* the index holds no zero balance and no empty map under the key
NoZeroUnder(k) ==
    Has(totals, k) =>
      /\ ~IsEmptyDict(totals[k])
      /\ \A c \in DOMAIN totals[k] : totals[k][c] # 0

\* C25: after a completed withdraw with 0 <= fee <= amount the index holds
\* no zero balance and no empty map, for the exchange withdrawn from and
\* for in_transit.
C25_NoZeroBalances ==
    WithdrawCompleted => NoZeroUnder(op.call.exchange) /\ NoZeroUnder(InTransit)

\* what holds: the same for the exchange, and for in_transit if the fee is
\* less than the amount
NoZeroBalancesUnlessAllIsFee ==
    WithdrawCompleted =>
      /\ NoZeroUnder(op.call.exchange)
      /\ op.call.fee < op.call.amount => NoZeroUnder(InTransit)
      /\ (op.call.fee = op.call.amount /\ TransitBalance(pre.totals) = 0)
           => /\ Has(totals, InTransit)
              /\ Has(totals[InTransit], op.call.currency)
              /\ totals[InTransit][op.call.currency] = 0

(***************************************************************************)
(* Payments                                                                *)
(***************************************************************************)
\* the last call was a pay that has paid
Paid ==
    /\ op.call.name = "pay"
    /\ op.exc = "none"
    /\ op.call.amount > 0

OtherLots(seq) == SelectSeq(seq, LAMBDA b : b.currency # op.call.currency)

\* the pay has taken the amount out of the exchange's list and left the
\* lots of other currencies, the other exchanges and transit as they were
PaidOutOfLedger ==
    /\ LotSum(LedgerBefore, op.call.currency, "amount")
         - LotSum(LedgerAfter, op.call.currency, "amount") = op.call.amount
    /\ OtherLots(LedgerAfter) = OtherLots(LedgerBefore)
    /\ \A k \in (DOMAIN pre.bags) \ {op.call.exchange} :
         Has(bags, k) /\ bags[k] = pre.bags[k]
    /\ DOMAIN bags \subseteq DOMAIN pre.bags
    /\ in_transit = pre.in_transit

\* the proceeds are amount * rate, and the short-term sums lie between 0
\* and the sums over all lots
PaidSums ==
    /\ op.ret.rev = DMul(op.call.amount, op.call.relation[op.call.currency])
    /\ 0 <= op.ret.st_cost /\ op.ret.st_cost <= op.ret.cost
    /\ 0 <= op.ret.st_rev /\ op.ret.st_rev <= op.ret.rev

\* the outcome is that of the pay of the other arguments, whatever is_fee
SameForFee ==
    /\ SameAs(pay(Before, op.call.dtime, op.call.currency, op.call.amount,
                  op.call.exchange, op.call.relation))
    /\ op.ret = pay(Before, op.call.dtime, op.call.currency, op.call.amount,
                    op.call.exchange, op.call.relation).ret

CostDecrease ==
    LotSum(LedgerBefore, op.call.currency, "cost")
      - LotSum(LedgerAfter, op.call.currency, "cost")

\* the lots of the currency the pay has taken wholly, and the lot it has
\* taken a part of
TakenWhole ==
    {b \in LotsOf(LedgerBefore, op.call.currency) :
       \A r \in Lots(LedgerAfter) : r.id # b.id}

TakenPartly ==
    {b \in LotsOf(LedgerBefore, op.call.currency) :
       \E r \in Lots(LedgerAfter) : r.id = b.id /\ r # b}

\* what is left of the lot b
LeftLot(b) == CHOOSE r \in Lots(LedgerAfter) : r.id = b.id

RECURSIVE PartValues(_)

\* amount taken * price, summed over the lots taken partly
PartValues(lots) ==
    IF lots = {} THEN 0
    ELSE DAdd(DMul((CHOOSE b \in lots : TRUE).amount
                     - LeftLot(CHOOSE b \in lots : TRUE).amount,
                   (CHOOSE b \in lots : TRUE).price),
              PartValues(lots \ {CHOOSE b \in lots : TRUE}))

\* C26 as stated: a pay that succeeds takes exactly the amount out of the
\* exchange's list, leaves all else, and returns the cost equal to the
\* decrease of the summed cost of that list and the proceeds amount * rate,
\* the short-term sums between 0 and these; is_fee changes nothing.
C26_PayReturnsCostDecrease ==
    Paid =>
      /\ PaidOutOfLedger
      /\ PaidSums
      /\ SameForFee
      /\ op.ret.cost = CostDecrease

\* C26: the same, but the cost returned is the cost of the lots taken
\* wholly plus amount taken * price of the lot taken partly, whose cost is
\* lowered by that value and rounded; the cost returned equals the
\* decrease of the summed cost where that subtraction is exact.
C26_PayReturnsCostTaken ==
    Paid =>
      /\ PaidOutOfLedger
      /\ PaidSums
      /\ SameForFee
      /\ Cardinality(TakenPartly) <= 1
      /\ op.ret.cost
           = DAdd(SetSum(TakenWhole, "cost"), PartValues(TakenPartly))
      /\ \A b \in TakenPartly :
           /\ LeftLot(b).cost = DSub(b.cost, PartValues({b}))
           /\ LeftLot(b).price = b.price
      /\ (\A b \in TakenPartly :
            LeftLot(b).cost = b.cost - PartValues({b}))
           => op.ret.cost = CostDecrease

\* a fee is paid out of a lot whose price is a rounded quotient, and the
\* cost returned is not the decrease of the summed cost
C26_Witness ==
    /\ Paid
    /\ op.call.is_fee
    /\ TakenPartly # {}
    /\ op.ret.cost # CostDecrease
    /\ in_transit # EmptyDict

\* a pay takes a lot wholly and a part of the next, one of them held for a
\* year
PaidFromTwoLots ==
    /\ Paid
    /\ TakenWhole # {} /\ TakenPartly # {}
    /\ 0 < op.ret.st_cost /\ op.ret.st_cost < op.ret.cost

(***************************************************************************)
(* Snapshots written at errors                                             *)
(***************************************************************************)
\* the last call has ended in the user-fixable error, and its snapshot is
\* written
SnapshotWritten == op.exc = "ValueError" /\ dump # NoDump

\* a new object loads the snapshot
Resumed == load(NewBagFIFO, JsonDump(dump))

\* C27: every snapshot written as a user-fixable error is raised is
\* accepted by load: the balances stored agree with the balances counted,
\* and processing can go on from it.
C27_SnapshotLoads ==
    SnapshotWritten =>
      /\ Resumed.exc = "none"
      /\ Resumed.totals = totals
      /\ Resumed.last_date = last_date

\* what holds: load accepts the snapshot unless it holds a zero balance
SnapshotLoadsUnlessZero ==
    SnapshotWritten =>
      Resumed.exc = IF EmptiedKeys(JsonLoad(JsonDump(dump)).totals) # {}
                    THEN "RuntimeError" ELSE "none"

(***************************************************************************)
(* The last date at a rejection                                            *)
(***************************************************************************)
\* the last call passed the check of its timestamp and was rejected by a
\* later check
RejectedLater ==
    /\ op.call.name # "init"
    /\ op.exc = "ValueError"
    /\ HasTz(op.call.dtime)
    /\ op.call.dtime >= pre.last_date

\* C28: when a call at time t passes the check of the order and is then
\* rejected, the last date of the object and of the snapshot written is t,
\* and an object that has loaded the snapshot does not reject a call at
\* time t as out of order.
C28_RejectionKeepsTime ==
    RejectedLater =>
      /\ last_date = op.call.dtime
      /\ dump # NoDump
      /\ dump.last_date = op.call.dtime
      /\ JsonLoad(JsonDump(dump)).last_date = op.call.dtime
      /\ Resumed.exc = "none" =>
           /\ Resumed.last_date = op.call.dtime
           /\ CheckOrder(Resumed, op.call.dtime).exc = "none"

\* a withdraw later than the last call is rejected for its amount, and the
\* snapshot is loaded
C28_Witness ==
    /\ RejectedLater
    /\ op.call.name = "withdraw"
    /\ op.call.dtime > pre.last_date
    /\ pre.last_date > Epoch
    /\ op.call.amount > BalanceBefore
    /\ Resumed.exc = "none"
    /\ Resumed.last_date = op.call.dtime

====
